---- MODULE Spec2Model ----
(***************************************************************************)
(* Model of download_export.py (ClasseViva export downloader).             *)
(*                                                                         *)
(* The specifications share the variables:                                 *)
(*   SpecResolve : the three element-resolution routines (login submit,    *)
(*                 export trigger, confirm control) applied to every small *)
(*                 page, a page being what each locator strategy matches;  *)
(*   Spec        : one run of main(): login, navigation, download_export   *)
(*                 with the download listener, the clock and the site;     *)
(*   SpecDates   : the date range the form filler computes, for every      *)
(*                 current date of a range of years;                       *)
(*   SpecCleanup : cleanup_old_exports over every small data directory;    *)
(*   SpecLive    : Spec with the script's own steps taken fairly;          *)
(*   SpecHandoff : save, pruning and the parser's choice of file;          *)
(*   SpecForm    : the date fields the form filler writes;                 *)
(*   SpecParser  : parse_homework.py from its arguments to the parsing of  *)
(*                 the export file.                                        *)
(* Time is counted in half seconds (the smallest sleep in the code).       *)
(***************************************************************************)
EXTENDS Integers, Sequences, FiniteSets, TLC

\* ---------------------------------------------------------------- bounds
\* number of locator strategies configured for the login submit / confirm role
NStrat == 2
\* number of elements one locator may match on the page
MaxMatch == 2

\* the current dates range over the years FirstYear .. FirstYear + NYears - 1
FirstYear == 1896
NYears == 210
\* number of export files in the data directory, their modification times
\* and the clock in days from 0, the retention in days
MaxFiles == 3
MaxTime == 3
MaxKeep == 2
\* number of input elements in the scope the form filler searches
MaxFields == 2

\* ------------------------------------------------------ program constants
\* the export trigger has two strict methods (text, title) before the scan
TriggerStrict == 2

VARIABLES
    \* --- SpecResolve
    rrole,      \* role being resolved: "login", "trigger", "confirm"
    rdom,       \* what each strategy of the role matches on the page
    rscan,      \* what the last-resort scan of the role matches
    rstage,     \* "strict" (before the strategy list ran), "scan", "done"
    rres,       \* the resolved element
    \* --- Spec
    pc,          \* the statement main() is at
    interactive, \* --interactive / -i given
    creds,       \* both credentials are set once environment and .env were read
    browser,     \* "none", "open", "closed"
    exitCode,    \* -1 while running, then the process exit status
    interrupted, \* a KeyboardInterrupt reached main's handler
    lg,          \* login_to_classeviva: locals, the login page, the result
    nav,         \* navigate_to_export: result and where the page ended up
    dl,          \* download_export: locals, listener, clock, site, result
    diag,        \* diagnostic files whose capture was attempted
    \* --- SpecDates
    today,       \* datetime.now() of the fill: [year, month, day]
    fillStep,    \* which fill computed the range: "none", "main", "recovery"
    date_from_str, \* the string written to a from field
    date_to_str, \* the string written to a to field
    \* --- SpecCleanup
    data_dir,    \* st_mtime of the files matching export_*.xls*, in glob order
    keep_days,   \* the retention the caller asks for
    now,         \* datetime.now() of the call
    unlinkFails, \* the files whose unlink() raises
    cl,          \* cleanup_old_exports: position, locals, what it did
    \* --- SpecForm
    form,        \* the inputs of the scope, what they hold, the filler's position
    \* --- SpecParser
    ph           \* parse_homework.py main(): arguments, directory, position

rvars == <<rrole, rdom, rscan, rstage, rres>>
wvars == <<pc, interactive, creds, browser, exitCode, interrupted, lg, nav, dl, diag>>
dvars == <<today, fillStep, date_from_str, date_to_str>>
\* the variables of the specifications of single functions
cvars == <<data_dir, keep_days, now, unlinkFails, cl>>
fvars == <<form>>
hvars == <<ph>>
pvars == <<dvars, cvars, fvars, hvars>>
vars == <<rvars, wvars, pvars>>

\* ------------------------------------------------------------ the page
\* An element as the resolver sees it:
\*   "vis"    is_visible() returns True
\*   "hid"    is_visible() returns False
\*   "visErr" is_visible() raises
\*   "txtErr" is_visible() returns True, reading its text/value raises
StrictKinds == {"vis", "hid", "visErr"}
LoginKinds == StrictKinds \cup {"txtErr"}

MatchLists(K) == UNION {[1..n -> K] : n \in 0..MaxMatch}

\* What one locator query gives: it raises, or the matches in DOM order.
StratResults(K) ==
    {[q |-> "raise", els |-> <<>>]} \cup {[q |-> "ok", els |-> e] : e \in MatchLists(K)}

NoScan == [q |-> "ok", els |-> <<>>]

\* A resolved element: the strategy that produced it and its DOM position
\* among that strategy's matches; strat = 0 is None.
NoElement == [found |-> FALSE, strat |-> 0, pos |-> 0]
Element(i, p) == [found |-> TRUE, strat |-> i, pos |-> p]

IsVisibleKind(k) == k \in {"vis", "txtErr"}

\* ------------------------------------------------- login submit control
\* LoginLoop with "except: login_button = btn; break" in place of
\* "except: continue" (what the confirm loop does)
RECURSIVE LoginLoopKeepsRaising(_, _, _)
LoginLoopKeepsRaising(dom, i, login_button) ==
    IF i > Len(dom) THEN login_button
    ELSE LET s == dom[i] IN
         IF s.q = "raise" \/ Len(s.els) = 0
         THEN LoginLoopKeepsRaising(dom, i + 1, login_button)
         ELSE IF s.els[1] \in {"vis", "visErr"} THEN Element(i, 1)
         ELSE IF s.els[1] = "txtErr"
         THEN LoginLoopKeepsRaising(dom, i + 1, Element(i, 1))
         ELSE LoginLoopKeepsRaising(dom, i + 1, login_button)

\* for selector in button_selectors: btn = page.locator(selector).first;
\* if btn.count() > 0 and btn.is_visible(): login_button = btn; <read text>; break
\* except: continue.  Reading the text comes after the assignment, so when it
\* raises the loop goes on with login_button already set.
RECURSIVE LoginLoop(_, _, _)
LoginLoop(dom, i, login_button) ==
    IF i > Len(dom) THEN login_button
    ELSE LET s == dom[i] IN
         IF s.q = "raise" \/ Len(s.els) = 0 THEN LoginLoop(dom, i + 1, login_button)
         ELSE IF s.els[1] = "vis" THEN Element(i, 1)
         ELSE IF s.els[1] = "txtErr" THEN LoginLoop(dom, i + 1, Element(i, 1))
         ELSE LoginLoop(dom, i + 1, login_button)

ResolveLogin(dom) == LoginLoop(dom, 1, NoElement)

\* ------------------------------------------------------- export trigger
\* Method 1 / Method 2: export_button = page.locator(...).first is assigned
\* before is_visible() is asked, so export_button keeps the locator (pos 0:
\* no element known to be visible) also when the method does not find it.
TriggerMethod(s, i) ==
    IF s.q = "raise" \/ Len(s.els) = 0 THEN [found |-> FALSE, strat |-> i, pos |-> 0]
    ELSE IF s.els[1] = "vis" THEN Element(i, 1)
    ELSE [found |-> FALSE, strat |-> i, pos |-> 0]

RECURSIVE TriggerLoop(_, _, _)
TriggerLoop(dom, i, export_button) ==
    IF i > Len(dom) \/ export_button.found THEN export_button
    ELSE TriggerLoop(dom, i + 1, TriggerMethod(dom[i], i))

ResolveTriggerStrict(dom) == TriggerLoop(dom, 1, NoElement)

\* First position of a scan list from position j on whose element is visible
\* (an element whose text read or visibility check raises is skipped); 0 if none.
RECURSIVE FirstVisibleFrom(_, _)
FirstVisibleFrom(els, j) ==
    IF j > Len(els) THEN 0
    ELSE IF els[j] = "vis" THEN j
    ELSE FirstVisibleFrom(els, j + 1)

\* Method 3: scan all "button, a" whose text or title holds Scarica / Excel
\* (scan.els lists those), take the first visible one.
TriggerScan(scan, export_button) ==
    IF scan.q = "raise" THEN export_button
    ELSE LET j == FirstVisibleFrom(scan.els, 1) IN
         IF j = 0 THEN export_button ELSE Element(TriggerStrict + 1, j)

\* ------------------------------------------------------ confirm control
\* for selector in confirm_selectors: btn = ctx.locator(selector).first;
\* if btn.count() > 0: try: if btn.is_visible(): confirm_button = btn; break
\*                      except: confirm_button = btn; break
\* except: continue
RECURSIVE ConfirmLoop(_, _)
ConfirmLoop(dom, i) ==
    IF i > Len(dom) THEN NoElement
    ELSE LET s == dom[i] IN
         IF s.q = "raise" \/ Len(s.els) = 0 THEN ConfirmLoop(dom, i + 1)
         ELSE IF s.els[1] = "vis" THEN Element(i, 1)
         ELSE IF s.els[1] = "visErr" THEN Element(i, 1)
         ELSE ConfirmLoop(dom, i + 1)

ResolveConfirmStrict(dom) == ConfirmLoop(dom, 1)

\* all_clickable[:15]
ConfirmScanLimit == 15

\* The loose scan over the clickable elements whose text holds one of
\* conferma / ok / scarica / download / export (scan.els lists those).
ConfirmScan(scan, n) ==
    IF scan.q = "raise" THEN NoElement
    ELSE LET j == FirstVisibleFrom(scan.els, 1) IN
         IF j = 0 \/ j > ConfirmScanLimit THEN NoElement ELSE Element(n + 1, j)

\* The trigger and the confirm control as download_export resolves them:
\* the strict strategies first, the scan only when they found nothing.
ResolveTrigger(dom, scan) ==
    LET r == ResolveTriggerStrict(dom) IN
    IF r.found THEN r ELSE TriggerScan(scan, r)

\* if not confirm_button: the loose scan, which the strict result r lets run
ConfirmAfterStrict(r, scan) == IF r.found THEN r ELSE ConfirmScan(scan, NStrat)

ResolveConfirm(dom, scan) == ConfirmAfterStrict(ResolveConfirmStrict(dom), scan)

\* ------------------------------------------------------------ the run
\* page.expect_download(timeout=30000), in half seconds
Budget == 60
\* captcha_selectors
NCaptcha == 5
\* ui_dialog_selectors
NUiDialog == 4
\* for attempt in range(10)
GenericAttempts == 10
\* download_links[:3]
MaxLinkClicks == 3
\* export_urls
NExportUrls == 4

Min(a, b) == IF a < b THEN a ELSE b

\* What one captcha selector finds on the login page: count() is 0, count()
\* is positive, or the query raises.
MarkerStates == {"absent", "present", "raise"}
NoMarkers == [i \in 1..NCaptcha |-> "absent"]

\* CaptchaLoop with captcha_found assigned from the current selector alone
\* (captcha_found = count() > 0): a later selector without a match clears it
RECURSIVE CaptchaLoopLastWins(_, _, _)
CaptchaLoopLastWins(markers, i, captcha_found) ==
    IF i > NCaptcha THEN captcha_found
    ELSE CaptchaLoopLastWins(markers, i + 1, markers[i] = "present")

\* for selector in captcha_selectors: try: if count() > 0: captcha_found = True
\* except: pass   (no break: every selector is asked)
RECURSIVE CaptchaLoop(_, _, _)
CaptchaLoop(markers, i, captcha_found) ==
    IF i > NCaptcha THEN captcha_found
    ELSE CaptchaLoop(markers, i + 1, captcha_found \/ markers[i] = "present")

CaptchaFound(markers) == CaptchaLoop(markers, 1, FALSE)

\* The verdict of login_to_classeviva once the submit went through:
\* if "login" in current_url.lower(): ... return False; else return True.
\* error_found is computed on the way and only printed.
LoginVerdict(urlLogin, error_found) == IF urlLogin THEN "fail" ELSE "ok"

LgInit ==
    [markers |-> NoMarkers, challenge |-> FALSE, captcha_found |-> FALSE,
     login_button |-> NoElement, submits |-> 0, urlLogin |-> TRUE,
     errVisible |-> FALSE, error_found |-> FALSE, res |-> "none", why |-> "none"]

\* What is left of the login once the page has moved on from the post-login
\* page: its result (the page facts and the per-attempt counters are gone).
LoggedIn == [LgInit EXCEPT !.res = "ok", !.why = "left_login", !.urlLogin = FALSE]

NavInit == [res |-> "none", urlAgenda |-> FALSE, raised |-> FALSE]

DlInit ==
    [siteDl |-> "never", button_found |-> FALSE,
     listener |-> "none", elapsed |-> 0, regCount |-> 0,
     fired |-> FALSE, firedWhile |-> "none", acted |-> {}, unregistered |-> {}, triggered |-> FALSE,
     modal_found |-> FALSE, modal_element |-> "none",
     confirm_button |-> NoElement, res |-> "none", why |-> "none",
     fileBefore |-> FALSE, fileToday |-> "untouched", formTouched |-> FALSE, idx |-> 0, urlAgenda |-> FALSE,
     fill_scope |-> "none", confirm_scopes |-> {}, enter_presses |-> 0,
     recovery |-> <<>>, lateRecovery |-> FALSE, navigated |-> FALSE, staleUse |-> FALSE,
     shown |-> {},
     filename |-> [dir |-> "", name |-> <<>>],
     savedOn |-> [year |-> 0, month |-> 0, day |-> 0]]

\* ------------------------------------------------------ the date range
\* calendar.isleap without the century rule (the Julian calendar)
isleapEveryFourth(year) == year % 4 = 0

\* calendar.isleap, which monthrange relies on
isleap(year) == year % 4 = 0 /\ (year % 100 # 0 \/ year % 400 = 0)

\* calendar.mdays[1..12]
mdays == <<31, 28, 31, 30, 31, 30, 31, 31, 30, 31, 30, 31>>

\* last_day = monthrange(year, month)[1]
monthrange(year, month) ==
    mdays[month] + (IF month = 2 /\ isleap(year) THEN 1 ELSE 0)

DigitChar(n) == <<"0", "1", "2", "3", "4", "5", "6", "7", "8", "9">>[n + 1]

\* %d and %m: two digits, zero padded
Pad2(n) == <<DigitChar(n \div 10), DigitChar(n % 10)>>

\* %Y for a year of four digits
Year4(y) ==
    <<DigitChar(y \div 1000), DigitChar((y \div 100) % 10),
      DigitChar((y \div 10) % 10), DigitChar(y % 10)>>

\* datetime(year, month, day).strftime("%d-%m-%Y"), as its characters
strftime(year, month, day) ==
    Pad2(day) \o <<"-">> \o Pad2(month) \o <<"-">> \o Year4(year)

\* datetime.now().strftime("%d%m%Y"): the day first
TimestampDayFirst(at) == Pad2(at.day) \o Pad2(at.month) \o Year4(at.year)

\* timestamp = datetime.now().strftime("%Y%m%d")
Timestamp(at) == Year4(at.year) \o Pad2(at.month) \o Pad2(at.day)

\* filename = download_dir / f"export_{timestamp}.xls"
ExportFile(at) ==
    [dir |-> "download_dir",
     name |-> <<"e", "x", "p", "o", "r", "t", "_">> \o Timestamp(at)
              \o <<".", "x", "l", "s">>]

\* the dates on which a download is saved
SaveDates ==
    {[year |-> 2026, month |-> 11, day |-> 3],
     [year |-> 2024, month |-> 2, day |-> 29],
     [year |-> 1999, month |-> 12, day |-> 31]}

\* today = datetime.now(); year = today.year; month = today.month;
\* date_from = datetime(year, month, 1); date_to = datetime(year, month, last_day)
DateFrom(at) == strftime(at.year, at.month, 1)
DateTo(at) == strftime(at.year, at.month, monthrange(at.year, at.month))

\* The calendar itself, counted in days (the proleptic Gregorian day number
\* of a date): what the clock of the machine runs on.
DayNumber(y, m, d) ==
    LET yy == IF m <= 2 THEN y - 1 ELSE y
        era == yy \div 400
        yoe == yy - era * 400
        mp == IF m > 2 THEN m - 3 ELSE m + 9
        doy == (153 * mp + 2) \div 5 + d - 1
        doe == yoe * 365 + yoe \div 4 - yoe \div 100 + doy
    IN era * 146097 + doe

\* the number of days from the first of a month to the first of the next
DaysInMonth(y, m) ==
    IF m = 12 THEN DayNumber(y + 1, 1, 1) - DayNumber(y, 12, 1)
    ELSE DayNumber(y, m + 1, 1) - DayNumber(y, m, 1)

Years == FirstYear..(FirstYear + NYears - 1)

\* the values datetime.now() can have
Nows ==
    {n \in [year : Years, month : 1..12, day : 1..31] :
        n.day <= DaysInMonth(n.year, n.month)}

NoDate == <<>>

\* --------------------------------------------------- cleanup_old_exports
\* export_files.sort(key=lambda f: f.stat().st_mtime, reverse=True): the sort
\* is stable, files of equal time keep the order the glob gave them
RECURSIVE InsertByTime(_, _, _)
InsertByTime(sorted, f, mtime) ==
    IF sorted = <<>> THEN <<f>>
    ELSE IF mtime[Head(sorted)] >= mtime[f]
         THEN <<Head(sorted)>> \o InsertByTime(Tail(sorted), f, mtime)
         ELSE <<f>> \o sorted

\* The names in the data directory: the export files come first in the
\* listing (their times are data_dir), the other files the script writes
\* there, the screenshots and the saved page markup, after them (cl.others).
FileName(f) ==
    IF f <= Len(data_dir) THEN [stem |-> "export_", ext |-> ".xls"]
    ELSE [stem |-> "classeviva_", ext |-> ".png"]

\* a pattern that every name matches
GlobAll(name) == TRUE

\* data_dir.glob("export_*.xls*")
GlobMatches(name) == name.stem = "export_" /\ name.ext \in {".xls", ".xlsx"}

\* the modification times of the whole listing
Mtimes == data_dir \o cl.others

\* export_files = list(glob), sorted newest first: the files that are there
\* and match the pattern
RECURSIVE SortNewestFirst(_, _, _)
SortNewestFirst(mtime, f, sorted) ==
    IF f > Len(mtime) THEN sorted
    ELSE SortNewestFirst(mtime, f + 1,
                         IF GlobMatches(FileName(f)) /\ f \notin cl.deleted
                         THEN InsertByTime(sorted, f, mtime) ELSE sorted)

\* the cutoff keep_days after now and not before it
CutoffDateAhead(clock, days) == clock + days

\* cutoff_date = datetime.now() - timedelta(days=keep_days)
CutoffDate(clock, days) == clock - days

\* the condition without its second half: age alone decides
ToDeleteAnyOld(file, export_files, mtime, cutoff_date) ==
    mtime[file] < cutoff_date

\* if file_mtime < cutoff_date and file != export_files[0]
ToDelete(file, export_files, mtime, cutoff_date) ==
    mtime[file] < cutoff_date /\ file # export_files[1]

ClInit ==
    [stage |-> "call", export_files |-> <<>>, i |-> 0, attempted |-> {},
     deleted |-> {}, deleted_count |-> 0, failed |-> {},
     sameDay |-> 0, saved |-> 0, excel_file |-> 0,
     others |-> <<>>, again |-> {}]

CleanupIdle ==
    /\ data_dir = <<>> /\ keep_days = 0 /\ now = 0 /\ unlinkFails = {}
    /\ cl = [ClInit EXCEPT !.stage = "idle"]

\* ------------------------------------------------------------ form filler
\* What the name or the id of an input holds: the from-token "dal" (and with
\* it "al", its last two letters), "al" without "dal", or neither.
AttrKinds == {"dal", "al", "other"}

Inputs == [name : AttrKinds, id : AttrKinds, visible : BOOLEAN]

\* date_selectors: input[name*='dal'], input[name*='al'], input[id*='dal'],
\* input[id*='al']; a substring selector for 'al' matches "dal" as well
Matches(selector, input) ==
    CASE selector = 1 -> input.name = "dal"
      [] selector = 2 -> input.name \in {"dal", "al"}
      [] selector = 3 -> input.id = "dal"
      [] selector = 4 -> input.id \in {"dal", "al"}

\* if "dal" in selector.lower(): fill(date_from_str)
\* elif "al" in selector.lower(): fill(date_to_str)
Written(selector) == IF selector \in {1, 3} THEN "first" ELSE "last"

\* search_context.locator(selector).first: the first match in document
\* order (0: no match)
RECURSIVE FirstMatch(_, _, _)
FirstMatch(fields, selector, k) ==
    IF k > Len(fields) THEN 0
    ELSE IF Matches(selector, fields[k]) THEN k
    ELSE FirstMatch(fields, selector, k + 1)

\* the recovery fill decides on the name of each field:
\* if "dal" in name.lower(): date_from_str  elif "al" in name.lower(): date_to_str
WrittenByName(input) ==
    CASE input.name = "dal" -> "first"
      [] input.name = "al" -> "last"
      [] OTHER -> "none"

\* What the first match of "input[value*='xls'],
\* input[type='radio'][value*='office']" is: nothing, a radio that is
\* selected, one that is not, or an input that is_checked() refuses
RadioKinds == {"absent", "selected", "unselected", "unchecked_kind"}

\* tried: the steps of the filler that were entered (1..4 the date selectors,
\* 5 the format control); firstRaise: the first step that raised (0: none);
\* check_called: xls_radio.check() was called
FormIdle ==
    form = [stage |-> "idle", fields |-> <<>>, value |-> <<>>, i |-> 0,
            radio |-> "absent", tried |-> {}, firstRaise |-> 0,
            check_called |-> FALSE]

\* ----------------------------------------------------- parse_homework.py
\* excel_file: where the path came from and, for a file of the data
\* directory, which one
NoFile == [src |-> "none", idx |-> 0]

PhInit ==
    [pc |-> "p_args", download |-> FALSE, file |-> "none", dir |-> <<>>,
     subprocess |-> "none", caught |-> FALSE, excel_file |-> NoFile, exit |-> -1,
     why |-> "none"]

ParserIdle == ph = [PhInit EXCEPT !.pc = "idle"]

DatesIdle ==
    /\ today = [year |-> FirstYear, month |-> 1, day |-> 1]
    /\ fillStep = "idle" /\ date_from_str = NoDate /\ date_to_str = NoDate

\* the variables of the other specifications, at rest
PureIdle == DatesIdle /\ CleanupIdle /\ FormIdle /\ ParserIdle

WorkIdle ==
    /\ pc = "idle" /\ interactive = FALSE /\ creds = FALSE /\ browser = "none"
    /\ exitCode = -1 /\ interrupted = FALSE
    /\ lg = LgInit /\ nav = NavInit /\ dl = DlInit /\ diag = {}

ResolveIdle ==
    /\ rrole = "login" /\ rdom = <<>> /\ rscan = NoScan
    /\ rstage = "idle" /\ rres = NoElement

\* ---------------------------------------------------------- SpecResolve
LoginDoms == [1..NStrat -> StratResults(LoginKinds)]
TriggerDoms == [1..TriggerStrict -> StratResults(StrictKinds)]
ConfirmDoms == [1..NStrat -> StratResults(StrictKinds)]
ScanResults == StratResults(StrictKinds)

ResolveInit ==
    /\ rrole \in {"login", "trigger", "confirm"}
    /\ rdom \in (CASE rrole = "login" -> LoginDoms
                   [] rrole = "trigger" -> TriggerDoms
                   [] OTHER -> ConfirmDoms)
    /\ rscan = NoScan
    /\ rstage = "strict"
    /\ rres = NoElement
    /\ WorkIdle /\ PureIdle

ResolveLoginStep ==
    /\ rrole = "login" /\ rstage = "strict"
    /\ rres' = ResolveLogin(rdom)
    /\ rstage' = "done"
    /\ UNCHANGED <<rrole, rdom, rscan, wvars, pvars>>

ResolveTriggerStep ==
    /\ rrole = "trigger" /\ rstage = "strict"
    /\ rres' = ResolveTriggerStrict(rdom)
    /\ rstage' = IF rres'.found THEN "done" ELSE "scan"
    /\ UNCHANGED <<rrole, rdom, rscan, wvars, pvars>>

TriggerScanStep ==
    /\ rrole = "trigger" /\ rstage = "scan"
    /\ \E sc \in ScanResults :
          /\ rscan' = sc
          /\ rres' = TriggerScan(sc, rres)
    /\ rstage' = "done"
    /\ UNCHANGED <<rrole, rdom, wvars, pvars>>

ResolveConfirmStep ==
    /\ rrole = "confirm" /\ rstage = "strict"
    /\ rres' = ResolveConfirmStrict(rdom)
    /\ rstage' = IF rres'.found THEN "done" ELSE "scan"
    /\ UNCHANGED <<rrole, rdom, rscan, wvars, pvars>>

ConfirmScanStep ==
    /\ rrole = "confirm" /\ rstage = "scan"
    /\ \E sc \in ScanResults :
          /\ rscan' = sc
          /\ rres' = ConfirmScan(sc, Len(rdom))
    /\ rstage' = "done"
    /\ UNCHANGED <<rrole, rdom, wvars, pvars>>

ResolveNext ==
    \/ ResolveLoginStep
    \/ ResolveTriggerStep
    \/ TriggerScanStep
    \/ ResolveConfirmStep
    \/ ConfirmScanStep

SpecResolve == ResolveInit /\ [][ResolveNext]_vars

\* ================================================================== Spec
\* ------------------------------------------------------------- main()
\* ------------------------------------------------------------ SpecDates
DatesInit ==
    /\ today \in Nows
    /\ fillStep = "none" /\ date_from_str = NoDate /\ date_to_str = NoDate
    /\ ResolveIdle /\ WorkIdle /\ CleanupIdle /\ FormIdle /\ ParserIdle

\* the main fill step of download_export computes the range it writes
FillMain ==
    /\ fillStep = "none"
    /\ fillStep' = "main"
    /\ date_from_str' = DateFrom(today)
    /\ date_to_str' = DateTo(today)
    /\ UNCHANGED <<today, rvars, wvars, cvars, fvars, hvars>>

\* the fill of the form found on a probed export URL (recovery 4) computes
\* it anew, with the same statements
FillRecovery ==
    /\ fillStep = "none"
    /\ fillStep' = "recovery"
    /\ date_from_str' = DateFrom(today)
    /\ date_to_str' = DateTo(today)
    /\ UNCHANGED <<today, rvars, wvars, cvars, fvars, hvars>>

DatesNext == FillMain \/ FillRecovery

SpecDates == DatesInit /\ [][DatesNext]_vars

\* ---------------------------------------------------------- SpecCleanup
Directories == UNION {[1..n -> 0..MaxTime] : n \in 0..MaxFiles}

\* the files of the directory that are no exports: none, or one as old as
\* can be, the one a wider pattern would prune
OtherFiles == {<<>>, <<0>>}

CleanupInit ==
    /\ data_dir \in Directories
    /\ keep_days \in 0..MaxKeep
    /\ now \in 0..MaxTime
    /\ unlinkFails \in SUBSET (1..Len(data_dir))
    /\ \E others \in OtherFiles : cl = [ClInit EXCEPT !.others = others]
    /\ ResolveIdle /\ WorkIdle /\ DatesIdle /\ FormIdle /\ ParserIdle

\* export_files = list(glob); if len(export_files) <= 1: return; sort
CleanupGlob ==
    /\ cl.stage = "call"
    /\ LET export_files == SortNewestFirst(Mtimes, 1, <<>>) IN
       cl' = IF Len(export_files) <= 1
             THEN [cl EXCEPT !.stage = "returned"]
             ELSE [cl EXCEPT !.stage = "loop", !.i = 1,
                             !.export_files = export_files]
    /\ UNCHANGED <<data_dir, keep_days, now, unlinkFails, rvars, wvars, dvars, fvars, hvars>>

\* one file of the loop without the inner try: a raising unlink() ends the
\* pass in the outer except
OneFileUnguarded(c, file) ==
    IF ~ToDelete(file, c.export_files, Mtimes, CutoffDate(now, keep_days))
    THEN [c EXCEPT !.i = @ + 1]
    ELSE IF file \in unlinkFails
         THEN [c EXCEPT !.attempted = @ \cup {file}, !.failed = @ \cup {file},
                        !.stage = "returned"]
         ELSE [c EXCEPT !.attempted = @ \cup {file}, !.deleted = @ \cup {file},
                        !.deleted_count = @ + 1, !.i = @ + 1]

\* one file of the loop: try: file.unlink(); deleted_count += 1
\* except Exception: print
OneFile(c, file) ==
    IF ~ToDelete(file, c.export_files, Mtimes, CutoffDate(now, keep_days))
    THEN [c EXCEPT !.i = @ + 1]
    ELSE IF file \in unlinkFails
         THEN [c EXCEPT !.attempted = @ \cup {file}, !.failed = @ \cup {file},
                        !.i = @ + 1]
         ELSE [c EXCEPT !.attempted = @ \cup {file}, !.deleted = @ \cup {file},
                        !.deleted_count = @ + 1, !.i = @ + 1]

CleanupFile ==
    /\ cl.stage = "loop" /\ cl.i <= Len(cl.export_files)
    /\ cl' = OneFile(cl, cl.export_files[cl.i])
    /\ UNCHANGED <<data_dir, keep_days, now, unlinkFails, rvars, wvars, dvars, fvars, hvars>>

\* the loop is over: the count is printed and the function returns None
CleanupReturn ==
    /\ cl.stage = "loop" /\ cl.i > Len(cl.export_files)
    /\ cl' = [cl EXCEPT !.stage = "returned"]
    /\ UNCHANGED <<data_dir, keep_days, now, unlinkFails, rvars, wvars, dvars, fvars, hvars>>

\* the loop of a call, from file c.i on, until it is over or left
RECURSIVE Pass(_)
Pass(c) ==
    IF c.stage # "loop" \/ c.i > Len(c.export_files) THEN c
    ELSE Pass(OneFile(c, c.export_files[c.i]))

\* cleanup_old_exports(data_dir, keep_days) called once more on what the
\* first call left, with the same clock: again is what it tries to delete
CleanupAgain ==
    /\ cl.stage = "returned" /\ cl.saved = 0
    /\ LET export_files == SortNewestFirst(Mtimes, 1, <<>>)
           c == IF Len(export_files) <= 1 THEN [cl EXCEPT !.attempted = {}]
                ELSE Pass([cl EXCEPT !.stage = "loop", !.i = 1,
                                     !.export_files = export_files,
                                     !.attempted = {}])
       IN cl' = [cl EXCEPT !.stage = "again", !.again = c.attempted]
    /\ UNCHANGED <<data_dir, keep_days, now, unlinkFails, rvars, wvars, dvars, fvars, hvars>>

CleanupNext == CleanupGlob \/ CleanupFile \/ CleanupReturn \/ CleanupAgain

SpecCleanup == CleanupInit /\ [][CleanupNext]_vars

\* ------------------------------------------------------------- SpecForm
Scopes == UNION {[1..n -> Inputs] : n \in 0..MaxFields}

FormInit ==
    /\ \E fields \in Scopes, radio \in RadioKinds :
          form = [stage |-> "open", fields |-> fields,
                  value |-> [k \in 1..Len(fields) |-> "default"], i |-> 0,
                  radio |-> radio, tried |-> {}, firstRaise |-> 0,
                  check_called |-> FALSE]
    /\ ResolveIdle /\ WorkIdle /\ DatesIdle /\ CleanupIdle /\ ParserIdle

\* the filler of download_export starts on its scope
FormFillStart ==
    /\ form.stage = "open"
    /\ form' = [form EXCEPT !.stage = "main", !.i = 1]
    /\ UNCHANGED <<rvars, wvars, dvars, cvars, hvars>>

\* one turn of "for selector, description in date_selectors":
\* field = search_context.locator(selector).first
\* if field.count() > 0 and field.is_visible(): fill; except: continue
Raised(f, raises) ==
    [f EXCEPT !.firstRaise = IF raises /\ @ = 0 THEN f.i ELSE @]

\* FormFillSelector with the except clause around the loop and not in it: a
\* selector that raises ends the filling of the dates
FormFillSelectorUnguarded ==
    /\ form.stage = "main" /\ form.i <= 4
    /\ LET k == FirstMatch(form.fields, form.i, 1)
           f == [form EXCEPT !.tried = @ \cup {form.i}] IN
       \E raises \in BOOLEAN :
          form' = IF raises THEN [Raised(f, raises) EXCEPT !.i = 5]
                  ELSE IF k # 0 /\ form.fields[k].visible
                  THEN [f EXCEPT !.value[k] = Written(form.i), !.i = @ + 1]
                  ELSE [f EXCEPT !.i = @ + 1]
    /\ UNCHANGED <<rvars, wvars, dvars, cvars, hvars>>

FormFillSelector ==
    /\ form.stage = "main" /\ form.i <= 4
    /\ LET k == FirstMatch(form.fields, form.i, 1)
           f == [form EXCEPT !.tried = @ \cup {form.i}] IN
       \E raises \in BOOLEAN :
          form' = IF k # 0 /\ form.fields[k].visible /\ ~raises
                  THEN [f EXCEPT !.value[k] = Written(form.i), !.i = @ + 1]
                  ELSE [Raised(f, raises) EXCEPT !.i = @ + 1]
    /\ UNCHANGED <<rvars, wvars, dvars, cvars, hvars>>

\* xls_radio = search_context.locator(...).first
\* if xls_radio.count() > 0 and not xls_radio.is_checked(): xls_radio.check()
\* except: print; is_checked() raises on an input that is no checkbox or
\* radio, check() on one that cannot be acted on
FormFillFormat ==
    /\ form.stage = "main" /\ form.i = 5
    /\ LET f == [form EXCEPT !.tried = @ \cup {5}] IN
       CASE form.radio = "absent" ->
               \E raises \in BOOLEAN : form' = [Raised(f, raises) EXCEPT !.i = 6]
         [] form.radio = "selected" -> form' = [f EXCEPT !.i = 6]
         [] form.radio = "unchecked_kind" -> form' = [Raised(f, TRUE) EXCEPT !.i = 6]
         [] OTHER ->
               \E raises \in BOOLEAN :
                  form' = [Raised(f, raises) EXCEPT
                              !.i = 6, !.check_called = TRUE,
                              !.radio = IF raises THEN @ ELSE "selected"]
    /\ UNCHANGED <<rvars, wvars, dvars, cvars, hvars>>

\* the statement after the try block of the filler: the search for the
\* confirm control
FormFillEnd ==
    /\ form.stage = "main" /\ form.i > 5
    /\ form' = [form EXCEPT !.stage = "filled"]
    /\ UNCHANGED <<rvars, wvars, dvars, cvars, hvars>>

\* the fill of the recovery step on a probed page: date_fields is every
\* input one of the four selectors matches; for field in date_fields: fill
\* by name, except: pass (an input that is not visible cannot be filled)
FormFillRecovery ==
    /\ form.stage = "open"
    /\ form' = [form EXCEPT
                  !.stage = "recovered",
                  !.value = [k \in 1..Len(form.fields) |->
                               LET f == form.fields[k] IN
                               IF /\ \E sel \in 1..4 : Matches(sel, f)
                                  /\ f.visible /\ WrittenByName(f) # "none"
                               THEN WrittenByName(f) ELSE "default"]]
    /\ UNCHANGED <<rvars, wvars, dvars, cvars, hvars>>

FormNext ==
    \/ FormFillStart
    \/ FormFillSelector
    \/ FormFillFormat
    \/ FormFillEnd
    \/ FormFillRecovery

SpecForm == FormInit /\ [][FormNext]_vars

\* ---------------------------------------------------------- SpecHandoff
\* The end of a successful run and the parser after it: download_export
\* saves export_<today>.xls into the data directory, main prunes the
\* directory, parse_homework.py picks the file it reads.
\* Times are instants; the run is shorter than the retention.
Without(files, e) ==
    IF e = 0 THEN files
    ELSE SubSeq(files, 1, e - 1) \o SubSeq(files, e + 1, Len(files))

InsertAt(files, j, mtime) ==
    SubSeq(files, 1, j - 1) \o <<mtime>> \o SubSeq(files, j, Len(files))

\* the data directory before the save (sameDay: the file already at the path
\* of today's export, 0 if there is none) and the instant of the save
HandoffInit ==
    /\ data_dir \in Directories
    /\ now \in 0..MaxTime
    /\ keep_days = 0 /\ unlinkFails = {}
    /\ \E e \in 0..Len(data_dir) :
          cl = [ClInit EXCEPT !.stage = "save", !.sameDay = e]
    /\ ResolveIdle /\ WorkIdle /\ DatesIdle /\ FormIdle /\ ParserIdle

\* if filename.exists(): filename.unlink(); download.save_as(filename): the
\* file is new, modified now, and the glob lists it at whatever place j;
\* then main calls cleanup_old_exports a little later, where every unlink
\* works or every unlink raises
HandoffSave ==
    /\ cl.stage = "save"
    /\ LET rest == Without(data_dir, cl.sameDay) IN
       \E j \in 1..(Len(rest) + 1), later \in 0..1 :
          /\ data_dir' = InsertAt(rest, j, now)
          /\ now' = now + later
          /\ keep_days' \in (later + 1)..MaxKeep
          /\ unlinkFails' \in {{}, 1..(Len(rest) + 1)}
          /\ cl' = [cl EXCEPT !.stage = "call", !.saved = j]
    /\ UNCHANGED <<rvars, wvars, dvars, fvars, hvars>>

\* min(export_files, key=...) in the place of max
RECURSIVE EarliestOf(_, _, _)
EarliestOf(files, mtime, best) ==
    IF files = <<>> THEN best
    ELSE EarliestOf(Tail(files), mtime,
                    IF best = 0 \/ mtime[Head(files)] < mtime[best]
                    THEN Head(files) ELSE best)

\* max(export_files, key=lambda f: f.stat().st_mtime): the first file of
\* the list whose time no other exceeds (0: the list is empty)
RECURSIVE LatestOf(_, _, _)
LatestOf(files, mtime, best) ==
    IF files = <<>> THEN best
    ELSE LatestOf(Tail(files), mtime,
                  IF best = 0 \/ mtime[Head(files)] > mtime[best]
                  THEN Head(files) ELSE best)

\* the files of the directory that were not deleted, in glob order
RECURSIVE Remaining(_, _, _)
Remaining(n, f, deleted) ==
    IF f > n THEN <<>>
    ELSE (IF f \in deleted THEN <<>> ELSE <<f>>) \o Remaining(n, f + 1, deleted)

\* parse_homework.py without --file: export_files = list(glob);
\* if export_files: excel_file = max(...) else the fallback name
ParserSelect ==
    /\ cl.stage = "returned" /\ cl.saved # 0
    /\ cl' = [cl EXCEPT !.stage = "parsed",
                        !.excel_file = LatestOf(Remaining(Len(data_dir), 1, cl.deleted),
                                                data_dir, 0)]
    /\ UNCHANGED <<data_dir, keep_days, now, unlinkFails, rvars, wvars, dvars, fvars, hvars>>

HandoffNext ==
    HandoffSave \/ CleanupGlob \/ CleanupFile \/ CleanupReturn \/ ParserSelect

SpecHandoff == HandoffInit /\ [][HandoffNext]_vars

\* ----------------------------------------------------------- SpecParser
\* parse_homework.py main(), lines 588-661: the arguments, the download
\* subprocess, the choice of the file, the test that it exists, its parsing.
\* ph.dir is the st_mtime of the files matching export_*.xls* in data/, in
\* glob order; --file names a path outside that listing, present or missing.
ParserDirs == UNION {[1..n -> 0..MaxTime] : n \in 0..(MaxFiles - 1)}

ParserInit ==
    /\ \E download \in BOOLEAN, file \in {"none", "present", "missing"},
          dir \in ParserDirs :
          ph = [PhInit EXCEPT !.download = download, !.file = file, !.dir = dir]
    /\ ResolveIdle /\ WorkIdle /\ DatesIdle /\ CleanupIdle /\ FormIdle

\* What the run of download_export.py leaves in data/: a run that exits 0
\* has saved an export, listed at whatever place j with whatever time (other
\* files can carry later times); the other outcomes leave the listing
DirAfter(dir, outcome) ==
    IF outcome = "exit0"
    THEN {InsertAt(dir, j, t) : j \in 1..(Len(dir) + 1), t \in 0..MaxTime}
    ELSE {dir}

\* PhDownload with the try block around subprocess.run alone: what the
\* branch for returncode 0 raises ends the parser
PhDownloadUncaught ==
    /\ ph.pc = "p_args"
    /\ IF ~ph.download
       THEN ph' = [ph EXCEPT !.pc = "p_select"]
       ELSE \E outcome \in {"exit0", "nonzero", "cannot_start"} :
               \E dir \in DirAfter(ph.dir, outcome) :
                  ph' = IF outcome = "exit0"
                        THEN [ph EXCEPT !.pc = "exit", !.exit = 1, !.dir = dir,
                                        !.subprocess = outcome, !.why = "download"]
                        ELSE [ph EXCEPT !.pc = "p_select", !.subprocess = outcome,
                                        !.caught = (outcome = "cannot_start")]
    /\ UNCHANGED <<rvars, wvars, dvars, cvars, fvars>>

\* if args.download: try: result = subprocess.run(...)
\*   if result.returncode == 0: export_files = list(data_dir.glob(...)) ...
\*   else: print;  except Exception: print, traceback
\* data_dir is a local of main assigned after this block (line 637): reading
\* it raises UnboundLocalError, which the except clause catches like the
\* OSError of a subprocess that cannot be started
PhDownload ==
    /\ ph.pc = "p_args"
    /\ IF ~ph.download
       THEN ph' = [ph EXCEPT !.pc = "p_select"]
       ELSE \E outcome \in {"exit0", "nonzero", "cannot_start"} :
               \E dir \in DirAfter(ph.dir, outcome) :
                  ph' = [ph EXCEPT !.pc = "p_select", !.dir = dir,
                                   !.subprocess = outcome,
                                   !.caught = (outcome \in {"exit0", "cannot_start"})]
    /\ UNCHANGED <<rvars, wvars, dvars, cvars, fvars>>

\* data_dir = ...; if args.file: excel_file = Path(args.file)
\* else: export_files = list(glob); if export_files: max(..., st_mtime)
\*       else: the fallback name export_26122025-2018.xls
PhSelect ==
    /\ ph.pc = "p_select"
    /\ ph' = [ph EXCEPT
                !.pc = "p_exists",
                !.excel_file =
                    IF ph.file # "none" THEN [src |-> "file", idx |-> 0]
                    ELSE IF ph.dir # <<>>
                    THEN [src |-> "glob",
                          idx |-> LatestOf(Remaining(Len(ph.dir), 1, {}), ph.dir, 0)]
                    ELSE [src |-> "fallback", idx |-> 0]]
    /\ UNCHANGED <<rvars, wvars, dvars, cvars, fvars>>

\* excel_file.exists(): a file of the listing is there, the file --file
\* names is there or not, the fallback name would have matched the glob
Exists(excel_file, file) ==
    CASE excel_file.src = "glob" -> TRUE
      [] excel_file.src = "file" -> file = "present"
      [] OTHER -> FALSE

\* if not excel_file.exists(): print; sys.exit(1)
PhExists ==
    /\ ph.pc = "p_exists"
    /\ ph' = IF Exists(ph.excel_file, ph.file)
             THEN [ph EXCEPT !.pc = "p_parse"]
             ELSE [ph EXCEPT !.pc = "exit", !.exit = 1, !.why = "missing"]
    /\ UNCHANGED <<rvars, wvars, dvars, cvars, fvars>>

\* df = parse_excel_file(excel_file); if df is None: sys.exit(1); the
\* parser goes on to extract_homework
PhParse ==
    /\ ph.pc = "p_parse"
    /\ \E parsed \in BOOLEAN :
          ph' = IF parsed THEN [ph EXCEPT !.pc = "p_extract"]
                ELSE [ph EXCEPT !.pc = "exit", !.exit = 1, !.why = "unparsed"]
    /\ UNCHANGED <<rvars, wvars, dvars, cvars, fvars>>

ParserNext == PhDownload \/ PhSelect \/ PhExists \/ PhParse

SpecParser == ParserInit /\ [][ParserNext]_vars

\* ------------------------------------------------------------------ Spec
\* A credential in the environment of the process: not set, set to the empty
\* string, or set to a value; and in the .env file that is found: there or not
\* (no file, an unreadable file and a file without the key are all "absent").
EnvValues == {"unset", "empty", "set"}
FileValues == {"absent", "set"}

\* os.getenv(name) once load_dotenv ran: load_dotenv leaves a variable that
\* is already in the environment as it is
Getenv(env, file) ==
    IF env = "unset" /\ file = "set" THEN "set" ELSE env

\* not (not username or not password): None and "" are both falsy
BothSet(username, password) == username = "set" /\ password = "set"

Init ==
    /\ ResolveIdle /\ PureIdle
    /\ pc = "m_creds"
    /\ interactive \in BOOLEAN
    /\ \E envU \in EnvValues, envP \in EnvValues,
          fileU \in FileValues, fileP \in FileValues :
          creds = BothSet(Getenv(envU, fileU), Getenv(envP, fileP))
    /\ browser = "none"
    /\ exitCode = -1
    /\ interrupted = FALSE
    /\ lg = LgInit /\ nav = NavInit /\ dl = DlInit /\ diag = {}

\* MainCredentials without the test of the credentials
MainCredentialsUnchecked ==
    /\ pc = "m_creds"
    /\ browser' = "open" /\ pc' = "l_goto" /\ exitCode' = exitCode
    /\ UNCHANGED <<interactive, creds, interrupted, lg, nav, dl, diag, rvars, pvars>>

\* if not username or not password: ... sys.exit(1); else the browser starts
MainCredentials ==
    /\ pc = "m_creds"
    /\ IF creds
       THEN /\ browser' = "open" /\ pc' = "l_goto" /\ exitCode' = exitCode
       ELSE /\ browser' = browser /\ pc' = "exit" /\ exitCode' = 1
    /\ UNCHANGED <<interactive, creds, interrupted, lg, nav, dl, diag, rvars, pvars>>

\* if not login_to_classeviva(...): browser.close(); sys.exit(1)
MainAfterLogin ==
    /\ pc = "m_after_login"
    /\ IF lg.res = "ok"
       THEN /\ pc' = "n_goto" /\ browser' = browser /\ exitCode' = exitCode
       ELSE /\ pc' = "exit" /\ browser' = "closed" /\ exitCode' = 1
    /\ UNCHANGED <<interactive, creds, interrupted, lg, nav, dl, diag, rvars, pvars>>

\* MainAfterNavigate with sys.exit(1) not preceded by browser.close()
MainAfterNavigateNoClose ==
    /\ pc = "m_after_nav"
    /\ IF nav.res = "ok"
       THEN /\ pc' = "d_resolve" /\ browser' = browser /\ exitCode' = exitCode
       ELSE /\ pc' = "exit" /\ browser' = browser /\ exitCode' = 1
    /\ UNCHANGED <<interactive, creds, interrupted, lg, nav, dl, diag, rvars, pvars>>

\* if not navigate_to_export(page): browser.close(); sys.exit(1)
MainAfterNavigate ==
    /\ pc = "m_after_nav"
    /\ IF nav.res = "ok"
       THEN /\ pc' = "d_resolve" /\ browser' = browser /\ exitCode' = exitCode
       ELSE /\ pc' = "exit" /\ browser' = "closed" /\ exitCode' = 1
    /\ UNCHANGED <<interactive, creds, interrupted, lg, nav, dl, diag, rvars, pvars>>

\* ExitStatus without the sys.exit(1) of the else branch
ExitStatusAlwaysZero(res) == 0

\* The exit status main() ends with after download_export returned:
\* if downloaded_file: ... return downloaded_file (status 0) else sys.exit(1)

ExitStatus(res) == IF res = "path" THEN 0 ELSE 1

\* if downloaded_file: cleanup_old_exports(...) ... else: browser.close(); sys.exit(1)
MainAfterDownload ==
    /\ pc = "m_after_dl"
    /\ IF dl.res = "path"
       THEN /\ pc' = "m_cleanup" /\ browser' = browser /\ exitCode' = exitCode
       ELSE /\ pc' = "exit" /\ browser' = "closed" /\ exitCode' = ExitStatus(dl.res)
    /\ UNCHANGED <<interactive, creds, interrupted, lg, nav, dl, diag, rvars, pvars>>

\* cleanup_old_exports(data_dir, keep_days=7): it absorbs its own exceptions
MainCleanup ==
    /\ pc = "m_cleanup"
    /\ pc' = "m_close"
    /\ UNCHANGED <<interactive, creds, browser, exitCode, interrupted, lg, nav, dl, diag, rvars, pvars>>

\* browser.close(); return downloaded_file   (the script ends, status 0)
MainReturn ==
    /\ pc = "m_close"
    /\ pc' = "exit" /\ browser' = "closed" /\ exitCode' = ExitStatus(dl.res)
    /\ UNCHANGED <<interactive, creds, interrupted, lg, nav, dl, diag, rvars, pvars>>

\* except KeyboardInterrupt: browser.close(); sys.exit(1), and the same two
\* statements in "except Exception" for an exception none of the functions
\* absorbed (interrupted stands for either).  The handler covers
\* the whole try block of main, so the operator can interrupt at any statement
\* between the browser start and the end of main.
\* The exception unwinds whichever function was running: its locals are gone,
\* what stays is what the functions had already returned.
Interrupt ==
    /\ browser = "open" /\ pc # "exit"
    /\ interrupted' = TRUE
    /\ pc' = "exit" /\ browser' = "closed" /\ exitCode' = 1
    /\ lg' = [LgInit EXCEPT !.res = lg.res, !.why = lg.why]
    /\ nav' = [NavInit EXCEPT !.res = nav.res]
    /\ dl' = [DlInit EXCEPT !.res = dl.res, !.why = dl.why]
    /\ UNCHANGED <<interactive, creds, diag, rvars, pvars>>

\* ------------------------------------------------ login_to_classeviva
LoginFail(why) == [lg EXCEPT !.res = "fail", !.why = why,
                             !.markers = NoMarkers, !.login_button = NoElement]

\* page.goto(login.php): raising returns False; else the login page is there
LoginGoto ==
    /\ pc = "l_goto"
    /\ \/ /\ lg' = LoginFail("load") /\ pc' = "m_after_login"
       \/ \E mk \in [1..NCaptcha -> MarkerStates] :
             /\ lg' = [lg EXCEPT !.markers = mk,
                                 !.challenge = \E i \in 1..NCaptcha : mk[i] = "present"]
             /\ pc' = "l_user"
    /\ UNCHANGED <<interactive, creds, browser, exitCode, interrupted, nav, dl, diag, rvars, pvars>>

\* username_field = page.wait_for_selector("#login"); fill
LoginUsername ==
    /\ pc = "l_user"
    /\ \/ /\ lg' = LoginFail("user") /\ pc' = "m_after_login"
       \/ /\ lg' = lg /\ pc' = "l_pass"
    /\ UNCHANGED <<interactive, creds, browser, exitCode, interrupted, nav, dl, diag, rvars, pvars>>

\* password_field = page.locator("#password"); count() == 0 returns False; fill
LoginPassword ==
    /\ pc = "l_pass"
    /\ \/ /\ lg' = LoginFail("pass") /\ pc' = "m_after_login"
       \/ /\ lg' = lg /\ pc' = "l_captcha"
    /\ UNCHANGED <<interactive, creds, browser, exitCode, interrupted, nav, dl, diag, rvars, pvars>>

\* the captcha loop; if captcha_found: return False
LoginCaptcha ==
    /\ pc = "l_captcha"
    /\ LET found == CaptchaFound(lg.markers) IN
       IF found
       THEN /\ lg' = [LoginFail("captcha") EXCEPT !.captcha_found = TRUE]
            /\ pc' = "m_after_login"
       ELSE /\ lg' = lg /\ pc' = "l_resolve"
    /\ UNCHANGED <<interactive, creds, browser, exitCode, interrupted, nav, dl, diag, rvars, pvars>>

LoginResults == {ResolveLogin(d) : d \in LoginDoms}

\* the button_selectors loop; if not login_button: return False
LoginResolve ==
    /\ pc = "l_resolve"
    /\ \E r \in LoginResults :
          IF r.found
          THEN /\ lg' = [lg EXCEPT !.login_button = r] /\ pc' = "l_click"
          ELSE /\ lg' = LoginFail("nobutton") /\ pc' = "m_after_login"
    /\ UNCHANGED <<interactive, creds, browser, exitCode, interrupted, nav, dl, diag, rvars, pvars>>

\* The page the site shows once the form was submitted.
PostPages == [urlLogin : BOOLEAN, errVisible : BOOLEAN]

Submitted(l, pg) == [l EXCEPT !.submits = @ + 1, !.markers = NoMarkers,
                              !.urlLogin = pg.urlLogin, !.errVisible = pg.errVisible]

\* with page.expect_navigation(timeout=15000): login_button.click()
\* either the navigation is seen, or it is not seen in time (the click was
\* made), or the click itself raises; the last two go to the except branch.
LoginClick ==
    /\ pc = "l_click"
    /\ \/ \E pg \in PostPages : lg' = Submitted(lg, pg) /\ pc' = "l_check"
       \/ \E pg \in PostPages : lg' = Submitted(lg, pg) /\ pc' = "l_click2"
       \/ /\ lg' = lg /\ pc' = "l_click2"
    /\ UNCHANGED <<interactive, creds, browser, exitCode, interrupted, nav, dl, diag, rvars, pvars>>

\* except: login_button.click(); time.sleep(3); wait_for_load_state (guarded)
\* a raising click leaves through the outer except: return False
LoginClickAgain ==
    /\ pc = "l_click2"
    /\ \/ \E pg \in PostPages : lg' = Submitted(lg, pg) /\ pc' = "l_check"
       \/ /\ lg' = LoginFail("click") /\ pc' = "m_after_login"
    /\ UNCHANGED <<interactive, creds, browser, exitCode, interrupted, nav, dl, diag, rvars, pvars>>

\* current_url = page.url; if "login" in it: look for an error message (a
\* visible one can be missed: no selector matches it, or its text is empty),
\* save page HTML then screenshot inside one try block, return False.
\* else: return True
LoginCheck ==
    /\ pc = "l_check"
    /\ \E seen \in BOOLEAN, htmlSaved \in BOOLEAN :
          /\ seen => (lg.urlLogin /\ lg.errVisible)
          /\ htmlSaved => lg.urlLogin
          /\ lg' = [lg EXCEPT !.error_found = seen,
                              !.res = LoginVerdict(lg.urlLogin, seen),
                              !.why = IF lg.urlLogin THEN "still_login" ELSE "left_login",
                              !.login_button = NoElement]
          /\ diag' = IF lg.urlLogin
                     THEN diag \cup {"login_failed_page.html"}
                               \cup (IF htmlSaved THEN {"login_failed_screenshot.png"} ELSE {})
                     ELSE diag
    /\ pc' = "m_after_login"
    /\ UNCHANGED <<interactive, creds, browser, exitCode, interrupted, nav, dl, rvars, pvars>>

\* ------------------------------------------------- navigate_to_export
\* NavigateResult with the URL check deciding: return False on another URL
NavigateResultStrict(raised, urlAgenda) ==
    IF raised \/ ~urlAgenda THEN "fail" ELSE "ok"

\* try: page.goto(...); if "agenda" in current_url.lower(): return True
\* else: (warning) return True;  except Exception: return False
NavigateResult(raised, urlAgenda) ==
    IF raised THEN "fail"
    ELSE IF urlAgenda THEN "ok" ELSE "ok"

\* page.goto(agenda_url, wait_until="networkidle", timeout=30000) returns or
\* raises (a timeout included), with the page on the agenda URL or on another
NavigateGoto ==
    /\ pc = "n_goto"
    /\ \E raised \in BOOLEAN, ag \in BOOLEAN :
          nav' = [res |-> NavigateResult(raised, ag), urlAgenda |-> ag,
                  raised |-> raised]
    /\ lg' = LoggedIn
    /\ pc' = "m_after_nav"
    /\ UNCHANGED <<interactive, creds, browser, exitCode, interrupted, dl, diag, rvars, pvars>>

\* ---------------------------------------------------- download_export
\* What makes the site start the download: the export trigger being
\* activated, the confirm control being activated, one of the recovery
\* requests (a link, a replayed or probed URL, a submitted form), or nothing.
SiteModes == {"trigger", "confirm", "recovery", "never"}

\* An action on the page that can start a download; unregistered collects the
\* kinds of action made while no download listener had been registered.
Click(d, kind, class) ==
    [d EXCEPT !.unregistered = IF d.listener = "none" THEN @ \cup {kind} ELSE @,
              !.acted = @ \cup {class}]

\* The waiter of page.expect_download(timeout=30000) is rejected once 30 s
\* have passed since it was created, whatever the script is doing then.
\* the waiter of expect_download(timeout=30000) is rejected once its age
\* reaches the timeout
Expire(listener, elapsed) ==
    IF listener = "pending" /\ elapsed >= Budget THEN "expired" ELSE listener

\* n half seconds pass (time.sleep, a wait that runs into its timeout);
\* elapsed is the age of the waiter while it is pending
Tick(d, n) ==
    IF d.listener # "pending" THEN d
    ELSE LET e == Min(d.elapsed + n, Budget) IN
         [d EXCEPT !.elapsed = e, !.listener = Expire(d.listener, e)]

\* one of the three click methods on the export trigger went through
Triggered(d, kind) == [Click(d, kind, "trigger") EXCEPT !.triggered = TRUE]

Return(d, res, why) == [d EXCEPT !.res = res, !.why = why]

TriggerResults == {ResolveTrigger(d, sc) : d \in TriggerDoms, sc \in ScanResults}
ConfirmStrictResults == {ResolveConfirmStrict(d) : d \in ConfirmDoms}
ConfirmResults == {ConfirmAfterStrict(r, sc) : r \in ConfirmStrictResults, sc \in ScanResults}

\* Methods 1-3; if not button_found: screenshot, then in interactive mode
\* input() and go on, else return False
DlResolveTrigger ==
    /\ pc = "d_resolve"
    /\ \E r \in TriggerResults, site \in SiteModes :
          LET d == [dl EXCEPT !.siteDl = site,
                              !.button_found = r.found,
                              !.urlAgenda = nav.urlAgenda] IN
          IF r.found
          THEN /\ dl' = d /\ pc' = "d_register" /\ diag' = diag
          ELSE /\ diag' = diag \cup {"classeviva_screenshot.png"}
               /\ IF interactive
                  THEN dl' = d /\ pc' = "d_manual"
                  ELSE dl' = Return(d, "fail", "notrigger") /\ pc' = "m_after_dl"
    /\ UNCHANGED <<interactive, creds, browser, exitCode, interrupted, lg, nav, rvars, pvars>>

\* "please manually click the 'Scarica in Excel' button. Press Enter when the
\* modal appears": input() returns after the operator clicked, or did not
DlManualTrigger ==
    /\ pc = "d_manual"
    /\ \E clicked \in BOOLEAN :
          dl' = IF clicked THEN Click(dl, "manual_trigger", "trigger") ELSE dl
    /\ pc' = "d_register"
    /\ UNCHANGED <<interactive, creds, browser, exitCode, interrupted, lg, nav, diag, rvars, pvars>>

\* with page.expect_download(timeout=30000) as download_info:
DlRegister ==
    /\ pc = "d_register"
    /\ dl' = [dl EXCEPT !.listener = "pending", !.elapsed = 0, !.regCount = @ + 1]
    /\ pc' = "d_click1"
    /\ UNCHANGED <<interactive, creds, browser, exitCode, interrupted, lg, nav, diag, rvars, pvars>>

\* DlClickNative going on to the script click whether or not click() raised
DlClickNativeAlways ==
    /\ pc = "d_click1"
    /\ \/ /\ dl' = Triggered(dl, "trigger_native") /\ pc' = "d_click2"
       \/ /\ dl' = dl /\ pc' = "d_click2"
    /\ UNCHANGED <<interactive, creds, browser, exitCode, interrupted, lg, nav, diag, rvars, pvars>>

\* export_button.click()
DlClickNative ==
    /\ pc = "d_click1"
    /\ \/ /\ dl' = Triggered(dl, "trigger_native") /\ pc' = "b_sleep1"
       \/ /\ dl' = dl /\ pc' = "d_click2"
    /\ UNCHANGED <<interactive, creds, browser, exitCode, interrupted, lg, nav, diag, rvars, pvars>>

\* page.evaluate("element => element.click()", export_button)
DlClickScript ==
    /\ pc = "d_click2"
    /\ \/ /\ dl' = Triggered(dl, "trigger_script") /\ pc' = "b_sleep1"
       \/ /\ dl' = dl /\ pc' = "d_click3"
    /\ UNCHANGED <<interactive, creds, browser, exitCode, interrupted, lg, nav, diag, rvars, pvars>>

\* DlClickForced with the last exception absorbed inside the with block: the
\* failure is noted and the block is left through its end, waiter and all
DlClickForcedAbsorbed ==
    /\ pc = "d_click3"
    /\ \/ /\ dl' = Triggered(dl, "trigger_forced") /\ pc' = "b_sleep1"
       \/ /\ dl' = Return(dl, "fail", "click") /\ pc' = "b_exit"
    /\ diag' = diag
    /\ UNCHANGED <<interactive, creds, browser, exitCode, interrupted, lg, nav, rvars, pvars>>

\* export_button.click(force=True); when it raises too the exception leaves
\* the with block (the waiter is cancelled): a PlaywrightTimeout goes through
\* the timeout branch (screenshot), any other through the outer except
DlClickForced ==
    /\ pc = "d_click3"
    /\ \/ /\ dl' = Triggered(dl, "trigger_forced") /\ pc' = "b_sleep1"
          /\ diag' = diag
       \/ \E isTimeout \in BOOLEAN :
             /\ dl' = Return([dl EXCEPT !.listener =
                                 IF @ = "pending" THEN "cancelled" ELSE @],
                             "fail", "click")
             /\ diag' = IF isTimeout
                        THEN diag \cup {"classeviva_timeout_screenshot.png"} ELSE diag
             /\ pc' = "m_after_dl"
    /\ UNCHANGED <<interactive, creds, browser, exitCode, interrupted, lg, nav, rvars, pvars>>

\* What the page shows, visibly, when the search for the modal begins: an
\* element of class ui-dialog, an element matched by one of modal_selectors
ModalKinds == {"uidialog", "generic"}

\* ui_dialog_selectors 2 and 4 end in :visible, 1 and 3 do not: .first of the
\* latter can be a ui-dialog element that is hidden while another is shown
VisibleOnly(idx) == idx \in {2, 4}

\* time.sleep(1)
BodySleep ==
    /\ pc = "b_sleep1"
    /\ dl' = Tick(dl, 2)
    /\ pc' = "b_newwin"
    /\ UNCHANGED <<interactive, creds, browser, exitCode, interrupted, lg, nav, diag, rvars, pvars>>

\* if check_new_windows(): new_page.wait_for_load_state(timeout=5000)
BodyNewWindow ==
    /\ pc = "b_newwin"
    /\ \E w \in {"none", "loaded", "slow"} :
          dl' = Tick(dl, IF w = "slow" THEN 10 ELSE 0)
    /\ pc' = "b_idle"
    /\ UNCHANGED <<interactive, creds, browser, exitCode, interrupted, lg, nav, diag, rvars, pvars>>

\* page.wait_for_load_state("networkidle", timeout=3000); time.sleep(1);
\* the after_click screenshot
BodyNetworkIdle ==
    /\ pc = "b_idle"
    /\ \E idle \in BOOLEAN, shown \in SUBSET ModalKinds :
          dl' = [Tick(dl, (IF idle THEN 0 ELSE 6) + 2) EXCEPT !.idx = 1, !.shown = shown]
    /\ diag' = diag \cup {"after_click_screenshot.png"}
    /\ pc' = "b_uidialog"
    /\ UNCHANGED <<interactive, creds, browser, exitCode, interrupted, lg, nav, rvars, pvars>>

ModalFound(d, element) == [d EXCEPT !.modal_found = TRUE, !.modal_element = element]

\* for selector in ui_dialog_selectors: wait_for(visible, 5000); on timeout
\* wait_for(attached, 2000), time.sleep(0.5), is_visible(); a wait that
\* raises at once (a detached frame, say) goes to the next selector as well
UiDialogOuts(d) ==
    IF "uidialog" \in d.shown
    THEN IF VisibleOnly(d.idx) THEN {"visible"} ELSE {"visible", "hidden"}
    ELSE {"late", "hidden", "absent", "raise"}

\* BodyUiDialog without the break: the generic selectors are tried although a
\* ui-dialog was found
BodyUiDialogNoBreak ==
    /\ pc = "b_uidialog"
    /\ \E out \in UiDialogOuts(dl) :
          CASE out = "visible" ->
                  /\ dl' = [ModalFound(dl, "uidialog") EXCEPT !.idx = 1]
                  /\ pc' = "b_generic"
            [] out = "late" ->
                  /\ dl' = ModalFound(Tick(dl, 10 + 1), "uidialog") /\ pc' = "b_exit"
            [] OTHER ->
                  LET d == Tick(dl, CASE out = "hidden" -> 10 + 1
                                      [] out = "absent" -> 10 + 4
                                      [] OTHER -> 0) IN
                  IF dl.idx < NUiDialog
                  THEN dl' = [d EXCEPT !.idx = @ + 1] /\ pc' = "b_uidialog"
                  ELSE dl' = [d EXCEPT !.idx = 1] /\ pc' = "b_generic"
    /\ UNCHANGED <<interactive, creds, browser, exitCode, interrupted, lg, nav, diag, rvars, pvars>>

\* for selector in ui_dialog_selectors: wait_for(visible, 5000); on timeout
\* wait_for(attached, 2000), time.sleep(0.5), is_visible(); a wait that
\* raises at once (a detached frame, say) goes to the next selector as well
BodyUiDialog ==
    /\ pc = "b_uidialog"
    /\ \E out \in UiDialogOuts(dl) :
          CASE out = "visible" ->
                  /\ dl' = ModalFound(dl, "uidialog") /\ pc' = "b_exit"
            [] out = "late" ->
                  /\ dl' = ModalFound(Tick(dl, 10 + 1), "uidialog") /\ pc' = "b_exit"
            [] OTHER ->
                  LET d == Tick(dl, CASE out = "hidden" -> 10 + 1
                                      [] out = "absent" -> 10 + 4
                                      [] OTHER -> 0) IN
                  IF dl.idx < NUiDialog
                  THEN dl' = [d EXCEPT !.idx = @ + 1] /\ pc' = "b_uidialog"
                  ELSE dl' = [d EXCEPT !.idx = 1] /\ pc' = "b_generic"
    /\ UNCHANGED <<interactive, creds, browser, exitCode, interrupted, lg, nav, diag, rvars, pvars>>

\* for attempt in range(10): for selector in modal_selectors: ...; time.sleep(0.5);
\* an element that is shown is found by the first pass
BodyGeneric ==
    /\ pc = "b_generic"
    /\ \/ /\ dl' = ModalFound(dl, "generic") /\ pc' = "b_exit"
       \/ /\ "generic" \notin dl.shown
          /\ LET d == Tick(dl, 1) IN
             IF dl.idx < GenericAttempts
             THEN dl' = [d EXCEPT !.idx = @ + 1] /\ pc' = "b_generic"
             ELSE dl' = [d EXCEPT !.idx = 0] /\ pc' = "b_heur"
    /\ UNCHANGED <<interactive, creds, browser, exitCode, interrupted, lg, nav, diag, rvars, pvars>>

\* the scan of potential_modals[:10] for something that looks like a modal
BodyHeuristic ==
    /\ pc = "b_heur"
    /\ \/ /\ dl' = ModalFound(dl, "heuristic") /\ pc' = "b_exit"
       \/ /\ dl' = dl /\ pc' = "b_links"
    /\ UNCHANGED <<interactive, creds, browser, exitCode, interrupted, lg, nav, diag, rvars, pvars>>

\* no modal: click up to three download-like links (time.sleep(2) after each),
\* then time.sleep(3)
BodyLinks ==
    /\ pc = "b_links"
    /\ \E n \in 0..MaxLinkClicks :
          dl' = Tick(IF n > 0 THEN Click(dl, "link", "recovery") ELSE dl, 4 * n + 6)
    /\ pc' = "b_second"
    /\ UNCHANGED <<interactive, creds, browser, exitCode, interrupted, lg, nav, diag, rvars, pvars>>

\* "Re-check for modal one more time": modal_found = True, modal_element is
\* not assigned
BodySecondCheck ==
    /\ pc = "b_second"
    /\ \/ /\ dl' = [dl EXCEPT !.modal_found = TRUE] /\ pc' = "b_exit"
       \/ /\ dl' = dl /\ pc' = "b_rec1"
    /\ UNCHANGED <<interactive, creds, browser, exitCode, interrupted, lg, nav, diag, rvars, pvars>>

\* A recovery step is entered: recovery lists the steps entered so far,
\* lateRecovery whether one was entered after the site had started the
\* download.
Attempt(d, step) ==
    [d EXCEPT !.recovery = IF \E k \in 1..Len(@) : @[k] = step THEN @
                           ELSE Append(@, step),
              !.lateRecovery = @ \/ d.fired]

\* export_button, resolved on the agenda page, is used; staleUse: the page
\* had been navigated away since
UseTrigger(d) == [d EXCEPT !.staleUse = @ \/ d.navigated]

\* page.goto returned: the page is another document now
Navigated(d) == [d EXCEPT !.navigated = TRUE, !.acted = @ \cup {"recovery"}]

\* recovery 1: page.goto(req_url) for the captured request URLs that look like
\* a download, until one does not raise (timeout 10 s each, time.sleep(2));
\* with no such URL the step does nothing
BodyReplay ==
    /\ pc = "b_rec1"
    /\ \/ dl' = dl
       \/ \E ag \in BOOLEAN :
             dl' = Tick([Navigated(Attempt(dl, 1)) EXCEPT !.urlAgenda = ag], 4)
       \/ dl' = Tick(Attempt(dl, 1), 20)
    /\ pc' = "b_rec2"
    /\ UNCHANGED <<interactive, creds, browser, exitCode, interrupted, lg, nav, diag, rvars, pvars>>

\* recovery 2: page.evaluate of the button's onclick attribute, time.sleep(2)
BodyOnclick ==
    /\ pc = "b_rec2"
    /\ LET d == UseTrigger(Attempt(dl, 2)) IN
       \/ dl' = d
       \/ dl' = Tick(Click(d, "onclick", "trigger"), 4)
    /\ pc' = "b_rec3"
    /\ UNCHANGED <<interactive, creds, browser, exitCode, interrupted, lg, nav, diag, rvars, pvars>>

\* recovery 3: export_button.evaluate("el => el.click()"), time.sleep(2);
\* then recovery 4 only if "agenda_studenti.php" in page.url
BodyReclick ==
    /\ pc = "b_rec3"
    /\ LET d == UseTrigger(Attempt(dl, 3)) IN
       \/ dl' = [d EXCEPT !.idx = 1]
       \/ dl' = [Tick(Click(d, "reclick", "trigger"), 4) EXCEPT !.idx = 1]
    /\ pc' = IF dl.urlAgenda THEN "b_rec4" ELSE "b_exit"
    /\ UNCHANGED <<interactive, creds, browser, exitCode, interrupted, lg, nav, diag, rvars, pvars>>

\* recovery 4: for export_url in export_urls: page.goto (10 s), time.sleep(2);
\* headers or a binary body that indicate a download end the loop, as does a
\* submitted form; a raising goto and a plain HTML page go to the next URL
BodyProbe ==
    /\ pc = "b_rec4"
    /\ \E out \in {"raise", "header", "binary", "submit", "html"} :
          LET went == Navigated(Attempt(dl, 4)) IN
          CASE out = "raise" ->
                  /\ dl' = [Tick(Attempt(dl, 4), 20) EXCEPT !.idx = @ + 1]
                  /\ pc' = IF dl.idx < NExportUrls THEN "b_rec4" ELSE "b_exit"
            [] out = "html" ->
                  /\ dl' = [Tick(went, 4 + 4) EXCEPT !.idx = @ + 1]
                  /\ pc' = IF dl.idx < NExportUrls THEN "b_rec4" ELSE "b_exit"
            [] out = "header" ->
                  /\ dl' = Tick(went, 4 + 6) /\ pc' = "b_exit"
            [] out = "binary" ->
                  /\ dl' = Tick(went, 4 + 4) /\ pc' = "b_exit"
            [] OTHER ->
                  /\ dl' = Tick(Click(went, "form_submit", "recovery"), 4 + 6)
                  /\ pc' = "b_exit"
    /\ UNCHANGED <<interactive, creds, browser, exitCode, interrupted, lg, nav, diag, rvars, pvars>>

\* The end of the with block: leaving it reads download_info.value, which
\* blocks until the waiter is resolved or rejected.  A captured download lets
\* the script go on with the statements after the block.
WithExitCaptured ==
    /\ pc = "b_exit" /\ dl.listener = "captured"
    /\ dl' = dl
    /\ pc' = "a_fill"
    /\ UNCHANGED <<interactive, creds, browser, exitCode, interrupted, lg, nav, diag, rvars, pvars>>

\* No download by the deadline: PlaywrightTimeout is raised at the end of the
\* with block and caught by "except PlaywrightTimeout".
WithExitTimeout ==
    /\ pc = "b_exit" /\ dl.listener \in {"pending", "expired"}
    /\ dl' = Tick(dl, Budget)
    /\ pc' = "d_timeout"
    /\ UNCHANGED <<interactive, creds, browser, exitCode, interrupted, lg, nav, diag, rvars, pvars>>

\* DlTimeout returning False straight from the except clause
DlTimeoutNoScreenshot ==
    /\ pc = "d_timeout"
    /\ dl' = Return(dl, "fail", "timeout")
    /\ pc' = "m_after_dl"
    /\ UNCHANGED <<interactive, creds, browser, exitCode, interrupted, lg, nav, diag, rvars, pvars>>

\* print("Timeout ..."); screenshot classeviva_timeout_screenshot.png; return False
DlTimeout ==
    /\ pc = "d_timeout"
    /\ dl' = Return(dl, "fail", "timeout")
    /\ diag' = diag \cup {"classeviva_timeout_screenshot.png"}
    /\ pc' = "m_after_dl"
    /\ UNCHANGED <<interactive, creds, browser, exitCode, interrupted, lg, nav, rvars, pvars>>

\* search_context = modal_element if modal_element else page
SearchContext(modal_element) ==
    IF modal_element # "none" THEN "modal" ELSE "page"

\* the date fields and the xls radio, each guarded; runs whether or not a
\* modal was found (search_context is the page then)
AfterFill ==
    /\ pc = "a_fill"
    /\ \E touched \in BOOLEAN :
          dl' = [dl EXCEPT !.formTouched = touched,
                           !.fill_scope = SearchContext(dl.modal_element)]
    /\ pc' = "a_confirm"
    /\ UNCHANGED <<interactive, creds, browser, exitCode, interrupted, lg, nav, diag, rvars, pvars>>

\* search_context again; the confirm_selectors loop, then the scan of
\* all_clickable, both over search_context and over nothing else
AfterResolveConfirm ==
    /\ pc = "a_confirm"
    /\ \E r \in ConfirmResults :
          /\ dl' = [dl EXCEPT !.confirm_button = r,
                              !.confirm_scopes =
                                  {SearchContext(dl.modal_element)}]
          /\ pc' = IF r.found THEN "a_click" ELSE "a_noconfirm"
    /\ UNCHANGED <<interactive, creds, browser, exitCode, interrupted, lg, nav, diag, rvars, pvars>>

\* confirm_button.click() with its fallbacks, time.sleep(3); all of them
\* raising is caught and printed
AfterConfirmClick ==
    /\ pc = "a_click"
    /\ \/ dl' = Tick(Click(dl, "confirm", "confirm"), 6)
       \/ dl' = dl
    /\ pc' = "a_value"
    /\ UNCHANGED <<interactive, creds, browser, exitCode, interrupted, lg, nav, diag, rvars, pvars>>

\* no confirm control: screenshot and page HTML (two try blocks); interactive:
\* input(); else time.sleep(5), page.keyboard.press("Enter"), time.sleep(2)
AfterNoConfirm ==
    /\ pc = "a_noconfirm"
    /\ diag' = diag \cup {"classeviva_modal_screenshot.png", "classeviva_modal_page.html"}
    /\ IF interactive
       THEN dl' = dl /\ pc' = "a_manual"
       ELSE /\ \/ dl' = [Tick(Click(Tick(dl, 10), "enter", "confirm"), 4)
                             EXCEPT !.enter_presses = @ + 1]
               \/ dl' = Tick(dl, 10)
            /\ pc' = "a_value"
    /\ UNCHANGED <<interactive, creds, browser, exitCode, interrupted, lg, nav, rvars, pvars>>

\* "please manually click 'Conferma' in the modal. Press Enter when download starts"
AfterManualConfirm ==
    /\ pc = "a_manual"
    /\ \E clicked \in BOOLEAN :
          dl' = IF clicked THEN Click(dl, "manual_confirm", "confirm") ELSE dl
    /\ pc' = "a_value"
    /\ UNCHANGED <<interactive, creds, browser, exitCode, interrupted, lg, nav, diag, rvars, pvars>>

\* AfterSave without "if filename.exists()" after save_as: a save that left
\* no file returns the path all the same
AfterSaveNoExistsCheck ==
    /\ pc = "a_value"
    /\ \E out \in {"saved", "raise", "missing"}, existed \in BOOLEAN, at \in SaveDates :
          LET d == [Tick(dl, 4) EXCEPT !.fileBefore = existed] IN
          dl' = CASE out = "saved" ->
                       Return([d EXCEPT !.fileToday = "new", !.savedOn = at,
                                        !.filename = ExportFile(at)], "path", "saved")
                  [] out = "missing" ->
                       Return([d EXCEPT !.fileToday = "absent"], "path", "save")
                  [] OTHER ->
                       Return([d EXCEPT !.fileToday = "absent"], "fail", "save")
    /\ pc' = "m_after_dl"
    /\ UNCHANGED <<interactive, creds, browser, exitCode, interrupted, lg, nav, diag, rvars, pvars>>

\* time.sleep(2); download = download_info.value; filename is
\* export_<timestamp of now>.xls in download_dir; an existing file of that
\* name is removed; download.save_as(filename); return filename if it
\* exists, False if not or if saving raised
AfterSave ==
    /\ pc = "a_value"
    /\ \E out \in {"saved", "raise", "missing"}, existed \in BOOLEAN, at \in SaveDates :
          LET d == [Tick(dl, 4) EXCEPT !.fileBefore = existed] IN
          dl' = IF out = "saved"
                THEN Return([d EXCEPT !.fileToday = "new", !.savedOn = at,
                                      !.filename = ExportFile(at)], "path", "saved")
                ELSE Return([d EXCEPT !.fileToday = "absent"], "fail", "save")
    /\ pc' = "m_after_dl"
    /\ UNCHANGED <<interactive, creds, browser, exitCode, interrupted, lg, nav, diag, rvars, pvars>>

DownloadPcs ==
    {"d_manual", "d_register", "d_click1", "d_click2", "d_click3", "b_sleep1",
     "b_newwin", "b_idle", "b_uidialog", "b_generic", "b_heur", "b_links",
     "b_second", "b_rec1", "b_rec2", "b_rec3", "b_rec4", "b_exit", "d_timeout",
     "a_fill", "a_confirm", "a_click", "a_noconfirm", "a_manual", "a_value"}

\* The site starts the download, at some moment after the action it answers
\* to.  A pending waiter is resolved by the event; without one (not yet
\* registered, rejected, cancelled) nothing records it.
DownloadFires ==
    /\ pc \in DownloadPcs
    /\ ~dl.fired /\ dl.siteDl \in dl.acted
    /\ dl' = [dl EXCEPT !.fired = TRUE, !.firedWhile = dl.listener,
                        !.elapsed = IF dl.listener = "pending" THEN 0 ELSE @,
                        !.listener = IF @ = "pending" THEN "captured" ELSE @]
    /\ UNCHANGED <<pc, interactive, creds, browser, exitCode, interrupted, lg, nav, diag, rvars, pvars>>

Next ==
    \/ MainCredentials \/ MainAfterLogin \/ MainAfterNavigate
    \/ MainAfterDownload \/ MainCleanup \/ MainReturn \/ Interrupt
    \/ LoginGoto \/ LoginUsername \/ LoginPassword \/ LoginCaptcha
    \/ LoginResolve \/ LoginClick \/ LoginClickAgain \/ LoginCheck
    \/ NavigateGoto
    \/ DlResolveTrigger \/ DlManualTrigger \/ DlRegister
    \/ DlClickNative \/ DlClickScript \/ DlClickForced
    \/ BodySleep \/ BodyNewWindow \/ BodyNetworkIdle \/ BodyUiDialog
    \/ BodyGeneric \/ BodyHeuristic \/ BodyLinks \/ BodySecondCheck
    \/ BodyReplay \/ BodyOnclick \/ BodyReclick \/ BodyProbe
    \/ WithExitCaptured \/ WithExitTimeout \/ DlTimeout
    \/ AfterFill \/ AfterResolveConfirm \/ AfterConfirmClick
    \/ AfterNoConfirm \/ AfterManualConfirm \/ AfterSave
    \/ DownloadFires

Spec == Init /\ [][Next]_vars

\* The steps the script takes by itself: every statement returns or raises
\* within its timeout, so a step that can be taken is taken.  Left out are
\* the steps that wait on somebody else: the two input() calls return when
\* the operator presses Enter, an interrupt and the start of the download by
\* the site may never come.
ProgramStep ==
    \/ MainCredentials \/ MainAfterLogin \/ MainAfterNavigate
    \/ MainAfterDownload \/ MainCleanup \/ MainReturn
    \/ LoginGoto \/ LoginUsername \/ LoginPassword \/ LoginCaptcha
    \/ LoginResolve \/ LoginClick \/ LoginClickAgain \/ LoginCheck
    \/ NavigateGoto
    \/ DlResolveTrigger \/ DlRegister
    \/ DlClickNative \/ DlClickScript \/ DlClickForced
    \/ BodySleep \/ BodyNewWindow \/ BodyNetworkIdle \/ BodyUiDialog
    \/ BodyGeneric \/ BodyHeuristic \/ BodyLinks \/ BodySecondCheck
    \/ BodyReplay \/ BodyOnclick \/ BodyReclick \/ BodyProbe
    \/ WithExitCaptured \/ WithExitTimeout \/ DlTimeout
    \/ AfterFill \/ AfterResolveConfirm \/ AfterConfirmClick
    \/ AfterNoConfirm \/ AfterSave

SpecLive == Spec /\ WF_vars(ProgramStep)

\* ====================================================== properties
\* -------------------------------------------------------------- C1
\* C1: every action that can start a download (trigger click and fallbacks,
\* the operator's manual click, link clicks, onclick replay, re-click, form
\* submit, confirm click) happens only after the download listener has been
\* registered: no download-starting action is ever performed while no
\* listener exists.
ListenerBeforeEveryClick == dl.unregistered = {}

\* -------------------------------------------------------------- C2
\* The run of scenario A: logged in, on the agenda page, trigger clicked,
\* the .ui-dialog modal detected, and a site that starts the download only
\* when the confirm control is activated.
ScenarioA ==
    /\ lg.res = "ok" /\ nav.res = "ok"
    /\ dl.triggered
    /\ dl.modal_found /\ dl.modal_element = "uidialog"
    /\ dl.siteDl = "confirm"

\* C2: in scenario A download_export ends Captured: whenever it has returned,
\* it returned the path of export_<today>.xls and that file is on disk (it
\* did not end in a timeout).
ScenarioAEndsCaptured ==
    (ScenarioA /\ dl.res # "none") => (dl.res = "path" /\ dl.fileToday = "new")

\* -------------------------------------------------------------- C3
\* The download event fired while the listener was pending, i.e. between
\* registration and the deadline.
FiredInWindow == dl.fired /\ dl.firedWhile = "pending"

\* C3 as stated: whenever the download event fired between registration and
\* the deadline, download_export returns the saved path.
FiredInWindowReturnsPath ==
    (FiredInWindow /\ dl.res # "none") => dl.res = "path"

\* C3, amended: an event that fires between registration and the deadline is
\* always captured by the listener, whatever UI state was reached; when one
\* of the trigger click methods went through, download_export then reaches
\* the save and returns the path exactly when the save leaves the file on
\* disk (a failing save returns failure); when all three click methods
\* raised, it returns failure although the event was captured.
FiredInWindowCapturedAndSaved ==
    /\ FiredInWindow => dl.listener = "captured"
    /\ (FiredInWindow /\ dl.triggered /\ dl.res # "none") =>
          /\ dl.why \in {"saved", "save"}
          /\ dl.res = "path" <=> dl.why = "saved"
          /\ dl.res = "path" <=> dl.fileToday = "new"
    /\ (FiredInWindow /\ ~dl.triggered /\ dl.res # "none") =>
          (dl.res = "fail" /\ dl.why = "click")

\* a download that fired during recovery, without any modal, was saved
FiredInWindowWitness ==
    /\ FiredInWindow /\ dl.triggered /\ ~dl.modal_found
    /\ dl.siteDl = "recovery"
    /\ dl.res = "path" /\ dl.fileToday = "new"

\* -------------------------------------------------------------- C4
\* form filling, confirm resolution and the confirm click or its substitutes
ResolvingPcs == {"a_fill", "a_confirm", "a_click", "a_noconfirm", "a_manual"}

\* C4: the download wait is one budget of 30 s that starts at the
\* registration of the listener: the listener is registered once, a pending
\* wait has less than the budget behind it, and form filling and confirm
\* resolution run inside that wait, so that their time is charged to it.
BudgetChargedThroughConfirm ==
    /\ dl.regCount <= 1
    /\ dl.listener = "pending" => dl.elapsed < Budget
    /\ pc \in ResolvingPcs => dl.listener = "pending"

\* What holds of the wait: one registration, one deadline counted from it,
\* every step inside the block charged to it, and the steps after the block
\* reached only with the wait already over (a captured download), so that
\* none of them is charged and none opens a wait of its own.
SingleDownloadBudget ==
    /\ dl.regCount <= 1
    /\ dl.elapsed \in 0..Budget
    /\ dl.listener = "pending" => dl.elapsed < Budget
    /\ dl.listener = "expired" => dl.elapsed = Budget
    /\ dl.listener = "captured" => FiredInWindow
    /\ dl.listener # "none" => dl.regCount = 1
    /\ pc \in ResolvingPcs \cup {"a_value"} => dl.listener = "captured"
    /\ pc = "d_timeout" => dl.listener = "expired"

\* -------------------------------------------------------------- C5
\* C5: when the trigger click went through, no modal was detected and no
\* download event ever fired, download_export ends in the timeout branch
\* returning False, the capture of classeviva_timeout_screenshot.png has been
\* attempted, no export file has been written, and the process exits 1.
NoModalNoDownloadTimesOut ==
    (dl.triggered /\ ~dl.modal_found /\ ~dl.fired /\ dl.res # "none") =>
        /\ dl.res = "fail" /\ dl.why = "timeout"
        /\ "classeviva_timeout_screenshot.png" \in diag
        /\ dl.fileToday = "untouched"
        /\ pc = "exit" => exitCode = 1

NoModalNoDownloadWitness ==
    /\ pc = "exit" /\ exitCode = 1 /\ ~interrupted
    /\ dl.triggered /\ ~dl.modal_found /\ ~dl.fired
    /\ dl.res = "fail" /\ dl.why = "timeout"
    /\ "recovery" \in dl.acted

\* -------------------------------------------------------------- C6
\* C6: when a challenge marker is present on the login page, the submit
\* control is never activated, login_to_classeviva returns failure, and the
\* run exits 1 without navigating to the agenda, without registering a
\* download listener and without clicking the export trigger.
ChallengeStopsRun ==
    lg.challenge =>
        /\ lg.submits = 0
        /\ pc \notin {"l_resolve", "l_click", "l_click2", "l_check"}
        /\ lg.res # "ok"
        /\ pc \in {"m_after_login", "exit"} => lg.res = "fail"
        /\ nav.res = "none"
        /\ dl.regCount = 0 /\ dl.listener = "none"
        /\ dl.acted = {} /\ ~dl.triggered
        /\ pc = "exit" => exitCode = 1

ChallengeStopsRunWitness ==
    /\ lg.challenge /\ lg.why = "captcha" /\ lg.res = "fail"
    /\ pc = "exit" /\ exitCode = 1 /\ ~interrupted

Invisible(s) == s.q = "raise" \/ \A p \in 1..Len(s.els) : s.els[p] = "hid"

HasVisible(s) == s.q = "ok" /\ \E p \in 1..Len(s.els) : IsVisibleKind(s.els[p])

\* C8: when strategies 1..k-1 match no visible element and strategy k
\* matches a visible element (at any position of its match list), the
\* resolution returns an element of strategy k.
FirstVisibleStrategyWins ==
    rstage = "done" =>
        \A k \in 1..Len(rdom) :
            ((\A j \in 1..(k - 1) : Invisible(rdom[j])) /\ HasVisible(rdom[k]))
                => (rres.found /\ rres.strat = k)

\* -------------------------------------------------------------- C9
QueryRaises(s) == s.q = "raise"

VisibilityRaises(s) == s.q = "ok" /\ Len(s.els) > 0 /\ s.els[1] = "visErr"

Erring(s) == QueryRaises(s) \/ VisibilityRaises(s)

Skipped(s) == Erring(s) \/ (s.q = "ok" /\ (Len(s.els) = 0 \/ s.els[1] = "hid"))

Returned(i) == rres.found /\ rres.strat = i

LoginChecked == pc = "m_after_login" /\ lg.why \in {"still_login", "left_login"}

\* C10 as stated: login_to_classeviva returns success exactly when the
\* post-submit URL is not the login view and no visible error element is on
\* the page.
LoginOkIffLeftLoginAndNoError ==
    LoginChecked => (lg.res = "ok" <=> (~lg.urlLogin /\ ~lg.errVisible))

\* What the code decides on: once the submit went through, success is
\* returned exactly when the post-submit URL does not contain "login"; error
\* elements are looked for only on a URL that still contains it.
LoginOkIffLeftLogin ==
    /\ LoginChecked => (lg.res = "ok" <=> ~lg.urlLogin)
    /\ LoginChecked => (lg.error_found => lg.urlLogin)
    /\ (pc = "m_after_login" /\ lg.res = "ok") => lg.why = "left_login"

\* -------------------------------------------------------------- C11
DigitVal(c) == CHOOSE n \in 0..9 : DigitChar(n) = c

IsDigit(c) == \E n \in 0..9 : DigitChar(n) = c

\* a string of the form DD-MM-YYYY
DayMonthYear(str) ==
    /\ Len(str) = 10
    /\ str[3] = "-" /\ str[6] = "-"
    /\ \A i \in {1, 2, 4, 5, 7, 8, 9, 10} : IsDigit(str[i])

\* the date a DD-MM-YYYY string reads as
ReadDate(str) ==
    [day |-> 10 * DigitVal(str[1]) + DigitVal(str[2]),
     month |-> 10 * DigitVal(str[4]) + DigitVal(str[5]),
     year |-> 1000 * DigitVal(str[7]) + 100 * DigitVal(str[8])
                + 10 * DigitVal(str[9]) + DigitVal(str[10])]

\* C11: in the main fill step and in the recovery fill step the range that
\* is written reads, as day-month-year, day 1 and the last calendar day of
\* the month of the current date: the day after which the next month begins,
\* which is 28, 29, 30 or 31, 29 for February of a leap year and 30 for April.
DateRangeIsWholeMonth ==
    fillStep \in {"main", "recovery"} =>
        /\ DayMonthYear(date_from_str) /\ DayMonthYear(date_to_str)
        /\ ReadDate(date_from_str) = [day |-> 1, month |-> today.month, year |-> today.year]
        /\ ReadDate(date_to_str).month = today.month
        /\ ReadDate(date_to_str).year = today.year
        /\ LET last == ReadDate(date_to_str).day
               nextFirst == IF today.month = 12
                            THEN DayNumber(today.year + 1, 1, 1)
                            ELSE DayNumber(today.year, today.month + 1, 1)
           IN /\ last \in 28..31
              /\ DayNumber(today.year, today.month, last) + 1 = nextFirst
              /\ today.day \in 1..last
              /\ today.month = 4 => last = 30
              /\ (today.month = 2 /\ today.year % 4 = 0 /\ today.year % 100 # 0) => last = 29
              /\ (today.month = 2 /\ today.year % 4 # 0) => last = 28

\* the range of the 29th of February 2000, computed by the main fill step
DateRangeLeapWitness ==
    /\ fillStep = "main"
    /\ today = [year |-> 2000, month |-> 2, day |-> 29]
    /\ date_from_str = <<"0", "1", "-", "0", "2", "-", "2", "0", "0", "0">>
    /\ date_to_str = <<"2", "9", "-", "0", "2", "-", "2", "0", "0", "0">>

\* -------------------------------------------------------------- C12
Newest(f) == \A g \in 1..Len(data_dir) : data_dir[g] <= data_dir[f]

\* not the file kept as the most recent one, and older than now - keep_days
Eligible(f) ==
    /\ Len(data_dir) > 1
    /\ f # cl.export_files[1]
    /\ data_dir[f] < now - keep_days

\* C12: when every deletion succeeds, the files cleanup_old_exports has
\* deleted when it returns are exactly those older than now - keep_days other
\* than the one most recently modified file it keeps; a most recently
\* modified file is kept whatever its age, and nothing is deleted when there
\* are no more than one export file.
CleanupDeletesOldButNewest ==
    (cl.stage = "returned" /\ unlinkFails = {}) =>
        /\ Len(data_dir) <= 1 => cl.deleted = {}
        /\ Len(data_dir) > 1 =>
              \E kept \in 1..Len(data_dir) :
                  /\ Newest(kept) /\ kept \notin cl.deleted
                  /\ cl.deleted = {f \in 1..Len(data_dir) :
                                      f # kept /\ data_dir[f] < now - keep_days}
        /\ cl.deleted_count = Cardinality(cl.deleted)

\* three files, all older than the cutoff: the two older ones are deleted and
\* the newest, though old, is kept
CleanupWitness ==
    /\ cl.stage = "returned" /\ unlinkFails = {}
    /\ data_dir = <<0, 1, 0>> /\ now = 3 /\ keep_days = 1
    /\ cl.deleted = {1, 3}

\* -------------------------------------------------------------- C13
\* C13: a deletion that fails does not stop the pass: when
\* cleanup_old_exports returns, the deletion of every eligible file has been
\* attempted, the files deleted and counted are the eligible ones whose
\* deletion did not fail, and the function has returned normally.
CleanupSurvivesFailedDelete ==
    cl.stage = "returned" =>
        /\ cl.attempted = {f \in 1..Len(data_dir) : Eligible(f)}
        /\ cl.failed = cl.attempted \cap unlinkFails
        /\ cl.deleted = cl.attempted \ unlinkFails
        /\ cl.deleted_count = Cardinality(cl.deleted)

\* the deletion of the first eligible file failed and the one after it was
\* deleted
CleanupFailedDeleteWitness ==
    /\ cl.stage = "returned"
    /\ Len(cl.export_files) = 3
    /\ cl.failed = {cl.export_files[2]}
    /\ cl.deleted = {cl.export_files[3]}

\* -------------------------------------------------------------- C14
\* the process has exited non-zero after the browser session was started, and
\* not through the operator's interrupt
FailedAfterBrowserStart ==
    pc = "exit" /\ exitCode # 0 /\ browser = "closed" /\ ~interrupted

\* C14 as stated: on every path on which the process exits non-zero after
\* the browser session was started, a diagnostic capture of the page has been
\* attempted before the exit.
DiagnosticBeforeFailureExit == FailedAfterBrowserStart => diag # {}

\* What the code does: a capture has been attempted on the failures "still on
\* the login URL", "trigger not found" and "download timeout"; the failures
\* of login before the submit went through and of the navigation exit with no
\* capture at all.
DiagnosticOnlyOnSomeFailures ==
    /\ (FailedAfterBrowserStart /\ lg.why = "still_login")
           => "login_failed_page.html" \in diag
    /\ (FailedAfterBrowserStart /\ dl.why = "notrigger")
           => "classeviva_screenshot.png" \in diag
    /\ (FailedAfterBrowserStart /\ dl.why = "timeout")
           => "classeviva_timeout_screenshot.png" \in diag
    /\ (FailedAfterBrowserStart /\ lg.res = "fail" /\ lg.why # "still_login")
           => diag = {}
    /\ (FailedAfterBrowserStart /\ nav.res = "fail") => diag = {}

\* -------------------------------------------------------------- C15
\* C15 as stated: where the page markup and a screenshot are both captured
\* (failed login, unresolved confirm control), each of the two is attempted
\* whether or not saving the other failed, and the function goes on to its
\* return.
BothCapturesAttempted ==
    /\ ("login_failed_page.html" \in diag \/ "login_failed_screenshot.png" \in diag)
           => {"login_failed_page.html", "login_failed_screenshot.png"} \subseteq diag
    /\ ("classeviva_modal_screenshot.png" \in diag \/ "classeviva_modal_page.html" \in diag)
           => {"classeviva_modal_screenshot.png", "classeviva_modal_page.html"} \subseteq diag

\* What the code does: the two captures of the unresolved confirm control sit
\* in two try blocks and are both attempted; those of the failed login share
\* one try block, markup first, so the screenshot is attempted only once the
\* markup was saved, and the markup is attempted whenever login ends on the
\* login URL.
ModalCapturesIndependent ==
    /\ ("classeviva_modal_screenshot.png" \in diag \/ "classeviva_modal_page.html" \in diag)
           => {"classeviva_modal_screenshot.png", "classeviva_modal_page.html"} \subseteq diag
    /\ "login_failed_screenshot.png" \in diag => "login_failed_page.html" \in diag
    /\ (pc = "m_after_login" /\ lg.why = "still_login")
           => ("login_failed_page.html" \in diag /\ lg.res = "fail")

\* -------------------------------------------------------------- C16
\* download_export is past its three resolution methods and none of them
\* found a visible export trigger
TriggerUnresolved ==
    pc \in DownloadPcs \cup {"m_after_dl"} /\ ~dl.button_found

TerminalWithoutActing ==
    /\ pc = "m_after_dl" /\ dl.res = "fail" /\ dl.why = "notrigger"
    /\ dl.regCount = 0 /\ dl.listener = "none"
    /\ ~dl.triggered /\ dl.acted = {}

\* C16 as stated: when no method resolves a visible export trigger,
\* download_export returns failure in every mode, with no download listener
\* registered, no element clicked and no recovery step run.
TriggerNotFoundIsTerminal == TriggerUnresolved => TerminalWithoutActing

\* What the code does: that holds without --interactive; with it the function
\* waits for the operator at input() and then goes on to register the
\* listener and click the locator left in export_button.
TriggerNotFoundTerminalWhenHeadless ==
    /\ (TriggerUnresolved /\ ~interactive) => TerminalWithoutActing
    /\ (TriggerUnresolved /\ dl.res = "none") => interactive

\* -------------------------------------------------------------- C17
\* the date a file name export_YYYYMMDD.xls carries
NameDate(name) ==
    [year |-> DigitVal(name[8]) * 1000 + DigitVal(name[9]) * 100
              + DigitVal(name[10]) * 10 + DigitVal(name[11]),
     month |-> DigitVal(name[12]) * 10 + DigitVal(name[13]),
     day |-> DigitVal(name[14]) * 10 + DigitVal(name[15])]

IsExportName(name) ==
    /\ Len(name) = 19
    /\ SubSeq(name, 1, 7) = <<"e", "x", "p", "o", "r", "t", "_">>
    /\ \A k \in 8..15 : IsDigit(name[k])
    /\ SubSeq(name, 16, 19) = <<".", "x", "l", "s">>

\* C17: whenever download_export has returned a path, the path is
\* export_<YYYYMMDD of the current date>.xls in download_dir and the file
\* there is the new download, also when a file of that name was there before
\* the run; when no file is there after the save, failure is returned.
ReturnedPathIsTodaysExport ==
    /\ (dl.res = "path" /\ ~interrupted) =>
          /\ dl.filename.dir = "download_dir"
          /\ IsExportName(dl.filename.name)
          /\ NameDate(dl.filename.name) = dl.savedOn
          /\ dl.fileToday = "new"
    /\ (pc = "m_after_dl" /\ dl.fileToday = "absent") => dl.res = "fail"

\* a download saved on the 29th of February 2024 over a file of that day
ReturnedPathWitness ==
    /\ pc = "m_after_dl" /\ dl.res = "path"
    /\ dl.fileBefore /\ dl.fileToday = "new"
    /\ dl.savedOn = [year |-> 2024, month |-> 2, day |-> 29]
    /\ dl.filename.name = <<"e", "x", "p", "o", "r", "t", "_", "2", "0", "2", "4",
                            "0", "2", "2", "9", ".", "x", "l", "s">>

\* -------------------------------------------------------------- C18
\* C18: when the process has exited after starting a browser session the
\* session is closed, whichever way main ended (the session was never
\* started only when the credentials were missing); and once the session is
\* closed the run is over: no step of main, login, navigation or download
\* can be taken any more.
SessionClosedBeforeExit ==
    /\ pc = "exit" => (browser = "closed" \/ (browser = "none" /\ ~creds))
    /\ browser = "open" => pc # "exit"
    /\ browser = "closed" => (pc = "exit" /\ exitCode \in {0, 1} /\ ~ENABLED Next)

\* the session closed after navigate_to_export returned failure
SessionClosedWitness ==
    /\ pc = "exit" /\ browser = "closed" /\ exitCode = 1
    /\ lg.res = "ok" /\ nav.res = "fail" /\ ~interrupted

\* -------------------------------------------------------------- C19
\* C19 as stated: every run of login_to_classeviva, navigate_to_export and
\* download_export that is started ends with a result (or with the operator
\* interrupting it), in interactive mode as well as in headless mode.
EveryRunTerminates ==
    /\ (pc = "l_goto") ~> (lg.res # "none" \/ interrupted)
    /\ (pc = "n_goto") ~> (nav.res # "none" \/ interrupted)
    /\ (pc = "d_resolve") ~> (dl.res # "none" \/ interrupted)

\* What the code does: login and navigation always end, and so does
\* download_export without --interactive; with it the function can stay at
\* one of its two input() calls for ever.
HeadlessRunsTerminate ==
    /\ (pc = "l_goto") ~> (lg.res # "none" \/ interrupted)
    /\ (pc = "n_goto") ~> (nav.res # "none" \/ interrupted)
    /\ (pc = "d_resolve" /\ ~interactive) ~> (dl.res # "none" \/ interrupted)
    /\ [](pc \in {"d_manual", "a_manual"} => interactive)

\* -------------------------------------------------------------- C20
\* C20: when navigate_to_export has returned, it returned success exactly
\* when the navigation call did not raise: a page on another URL than the
\* agenda is a success as well, and a raising or timed out call is a failure
\* whatever the URL.
NavigateOkIffGotoReturned ==
    pc = "m_after_nav" =>
        /\ nav.res \in {"ok", "fail"}
        /\ nav.res = "ok" <=> ~nav.raised
        /\ (~nav.raised /\ ~nav.urlAgenda) => nav.res = "ok"
        /\ (nav.raised /\ nav.urlAgenda) => nav.res = "fail"

\* the navigation call returned on a URL without the agenda segment and
\* navigate_to_export returned success
NavigateOtherUrlWitness ==
    /\ pc = "m_after_nav"
    /\ ~nav.raised /\ ~nav.urlAgenda /\ nav.res = "ok"

\* -------------------------------------------------------------- C21
\* C21: when a credential is still missing after the environment and the
\* .env file were read, main exits with status 1 and that is all it does: no
\* browser session is created and no login, navigation or download step runs.
MissingCredentialsStopBeforeBrowser ==
    ~creds =>
        /\ pc \in {"m_creds", "exit"}
        /\ pc = "exit" => exitCode = 1
        /\ browser = "none"
        /\ lg = LgInit /\ nav = NavInit /\ dl = DlInit /\ diag = {}

\* main has exited on the missing credentials
MissingCredentialsWitness ==
    ~creds /\ pc = "exit" /\ exitCode = 1 /\ browser = "none"

SavedIsStrictlyNewest ==
    \A f \in 1..Len(data_dir) : f # cl.saved => data_dir[f] < data_dir[cl.saved]

FromField(f) == f.name = "dal" \/ (f.name = "other" /\ f.id = "dal")
ToField(f) == f.name = "al" \/ (f.name = "other" /\ f.id = "al")

\* C23 as stated: once the form filler has run over a scope, a from field
\* holds the first day of the month or was left at the page default, a to
\* field holds the last day or was left at the default, and no other input
\* was written; so a from field never holds the last day, and a scope with a
\* from field alone is never given the last day.
FilledFromFirstToLast ==
    form.stage \in {"filled", "recovered"} =>
        \A k \in 1..Len(form.fields) :
            LET f == form.fields[k] IN
            /\ FromField(f) => form.value[k] \in {"default", "first"}
            /\ ToField(f) => form.value[k] \in {"default", "last"}
            /\ (~FromField(f) /\ ~ToField(f)) => form.value[k] = "default"

\* What the code does: the recovery fill, which writes by the name of each
\* field, does as stated; the main fill writes the last day into the first
\* input whose name, and then whose id, contains "al", the from field
\* included.
FilledByFirstMatch ==
    /\ form.stage = "recovered" =>
          \A k \in 1..Len(form.fields) :
              LET f == form.fields[k] IN
              /\ FromField(f) => form.value[k] \in {"default", "first"}
              /\ ToField(f) => form.value[k] \in {"default", "last"}
              /\ (~FromField(f) /\ ~ToField(f)) => form.value[k] = "default"
    /\ form.stage = "filled" =>
          \A k \in 1..Len(form.fields) :
              form.value[k] = "last" =>
                  \/ k = FirstMatch(form.fields, 2, 1)
                  \/ k = FirstMatch(form.fields, 4, 1)

\* -------------------------------------------------------------- C24
\* C24 as stated: whenever a modal is recorded as found, whichever stage
\* found it, the form filler and the confirm resolution search inside the
\* modal and not over the whole page.
ModalFoundImpliesModalScope ==
    dl.modal_found =>
        /\ dl.fill_scope \in {"none", "modal"}
        /\ dl.confirm_scopes \subseteq {"modal"}

\* What the code does: the scope is the modal when the stage that found it
\* kept the element (known dialog class, generic selectors, heuristic scan);
\* the delayed second check sets the flag and keeps no element, and the
\* scope is then the whole page.
ModalElementImpliesModalScope ==
    /\ dl.modal_element # "none" =>
          /\ dl.modal_found
          /\ dl.fill_scope \in {"none", "modal"}
          /\ dl.confirm_scopes \subseteq {"modal"}
    /\ dl.modal_element = "none" =>
          /\ dl.fill_scope \in {"none", "page"}
          /\ dl.confirm_scopes \subseteq {"page"}

\* -------------------------------------------------------------- C25
\* confirm resolution is over and found no control
ConfirmUnresolved ==
    pc \in {"a_noconfirm", "a_manual", "a_value", "m_after_dl"}
    /\ dl.confirm_scopes # {} /\ ~dl.confirm_button.found

\* C25 as stated: when a modal element was found and no confirm control
\* resolved inside it, confirm resolution has also been run over the whole
\* page before the control is declared unresolved.
ConfirmRetriedOverPage ==
    (ConfirmUnresolved /\ dl.modal_element # "none") => "page" \in dl.confirm_scopes

\* What the code does: confirm resolution runs once, over one scope.
ConfirmResolvedOverOneScope ==
    /\ Cardinality(dl.confirm_scopes) <= 1
    /\ (ConfirmUnresolved /\ dl.modal_element # "none") => dl.confirm_scopes = {"modal"}

\* -------------------------------------------------------------- C28
\* the confirm step is over and the download result is about to be read
ConfirmStepOver == pc \in {"a_value", "m_after_dl"} /\ dl.confirm_scopes # {}

\* C28 as stated: when no confirm control resolved, Enter has been sent to
\* the page exactly once before the download result is read, with and
\* without --interactive; when a confirm control resolved, Enter was not sent.
EnterOnceIffConfirmUnresolved ==
    ConfirmStepOver =>
        dl.enter_presses = (IF dl.confirm_button.found THEN 0 ELSE 1)

\* What the code does: Enter is never sent when a confirm control resolved
\* and never with --interactive (the operator is asked instead); without it
\* Enter is pressed once, and a press that raises is passed over.
EnterOnlyHeadlessUnresolved ==
    /\ dl.enter_presses \in {0, 1}
    /\ dl.enter_presses = 1 => (~interactive /\ ~dl.confirm_button.found
                                /\ dl.confirm_scopes # {})

\* -------------------------------------------------------------- C26
\* C26 as stated: the recovery steps are entered in the order replay,
\* script handler, script re-click, probing, each at most once, and none is
\* entered once the download has started.
RecoveryInOrderUntilDownload ==
    /\ \A k \in 1..(Len(dl.recovery) - 1) : dl.recovery[k] < dl.recovery[k + 1]
    /\ ~dl.lateRecovery

\* What the code does: the order is fixed and no step is entered twice; the
\* steps follow one another whether or not a download has started, and only
\* the probing loop ends early, on a response that is a download.
RecoveryInOrder ==
    /\ \A k \in 1..Len(dl.recovery) : dl.recovery[k] \in 1..4
    /\ \A k \in 1..(Len(dl.recovery) - 1) : dl.recovery[k] < dl.recovery[k + 1]
    /\ dl.recovery # <<>> => (dl.triggered /\ dl.modal_element = "none")
    /\ pc \in {"b_rec3", "b_rec4"} => \E k \in 1..Len(dl.recovery) : dl.recovery[k] = 2

\* -------------------------------------------------------------- C27
\* C27 as stated: once download_export has navigated the page, the export
\* trigger and the modal element resolved before are not used again.
NoStaleElementUse == ~dl.staleUse

\* What the code does: a navigation happens only when no modal element is
\* held, so a modal element is never used after one; the export trigger is
\* used by the script handler and re-click steps after a replay navigation.
NavigationOnlyWithoutModal ==
    /\ dl.navigated => dl.modal_element = "none"
    /\ dl.staleUse => (dl.navigated /\ dl.recovery[1] = 1)

\* -------------------------------------------------------------- C29
ClickPcs == <<"d_click1", "d_click2", "d_click3", "m_after_dl">>

\* C29: the trigger is activated by the native click, then the script click,
\* then the forced click, in that order (a step of the script is one that
\* moves pc); a method is entered only from the one
\* before it and only when that one raised; the first method that does not
\* raise ends the sequence; when the forced click raises too download_export
\* fails with the click as the cause and its download waiter is gone.
ClickMethodsInOrder ==
    [][/\ \A k \in 1..3 :
            (pc = ClickPcs[k] /\ pc' # pc /\ ~interrupted') =>
               /\ pc' \in {"b_sleep1", ClickPcs[k + 1]}
               /\ (pc' = "b_sleep1") <=> dl'.triggered
               /\ pc' # "b_sleep1" => ~dl.triggered
       /\ \A k \in 2..3 : (pc' = ClickPcs[k] /\ pc # pc') => pc = ClickPcs[k - 1]
       /\ (pc' = "b_sleep1" /\ pc # pc') => \E k \in 1..3 : pc = ClickPcs[k]
       /\ (pc = "d_click3" /\ pc' = "m_after_dl") =>
               /\ dl'.res = "fail" /\ dl'.why = "click"
               /\ dl'.listener # "pending"]_vars

\* the native, the script and the forced click all raised
AllClickMethodsRaised ==
    /\ pc = "m_after_dl" /\ dl.res = "fail" /\ dl.why = "click"
    /\ ~dl.triggered /\ dl.regCount = 1

\* -------------------------------------------------------------- C30
\* C30: when the page shows an element of the known dialog class, the modal
\* selected is the one the known-class stage found, also when an element
\* matched by the generic selectors is shown as well; the generic selectors
\* and the heuristic scan are reached only when the known-class stage found
\* no visible dialog.
KnownDialogFirst ==
    /\ ("uidialog" \in dl.shown /\ dl.modal_found) => dl.modal_element = "uidialog"
    /\ pc \in {"b_generic", "b_heur"} =>
          /\ "uidialog" \notin dl.shown
          /\ ~dl.modal_found /\ dl.modal_element = "none"
    /\ dl.modal_element \in {"generic", "heuristic"} => "uidialog" \notin dl.shown

\* both kinds were shown and the known-class dialog was selected, by a
\* :visible selector after the plain one met a hidden ui-dialog first
KnownDialogChosenOverGeneric ==
    /\ dl.shown = ModalKinds /\ pc = "b_exit"
    /\ dl.modal_found /\ dl.modal_element = "uidialog" /\ dl.idx = 2

\* -------------------------------------------------------------- C31
\* C31: the form filler never fails: whichever date selector or format step
\* raises, every one of the four date selectors and the format step is still
\* entered, in order, and the filler ends at the search for the confirm
\* control; check() is called on the format control only when one is present
\* and not selected.
FillAbsorbsEveryError ==
    /\ form.stage = "main" => form.tried = 1..(form.i - 1)
    /\ form.stage = "filled" => form.tried = 1..5
    /\ form.firstRaise # 0 => form.firstRaise \in form.tried
    /\ form.check_called =>
          (5 \in form.tried /\ form.radio \in {"selected", "unselected"})

\* the first date selector raised, a later one still wrote its field, the
\* format control was checked, and the filler came to its end
FillWentOnAfterRaise ==
    /\ form.stage = "filled" /\ form.firstRaise = 1
    /\ \E k \in 1..Len(form.fields) : form.value[k] # "default"
    /\ form.check_called /\ form.radio = "selected"

\* -------------------------------------------------------------- C32
\* C32 as stated: when no modal was found the main fill step does not run:
\* it searches no scope and modifies no date field and no format control.
FillSkippedWithoutModal ==
    ~dl.modal_found => (dl.fill_scope = "none" /\ ~dl.formTouched)

\* What the code does: "if not modal_found" guards a print only; the fill
\* runs in either case, over the page when no modal element is held, and
\* over the modal only when one is.
FillRunsOverPageWithoutModal ==
    /\ dl.formTouched => dl.fill_scope # "none"
    /\ dl.fill_scope = "modal" => (dl.modal_found /\ dl.modal_element # "none")
    /\ dl.fill_scope = "page" => dl.modal_element = "none"
    /\ pc \in {"a_confirm", "a_click", "a_noconfirm", "a_value"} => dl.fill_scope # "none"

\* -------------------------------------------------------------- C33
\* C33 as stated: within one login attempt the submit control is activated
\* at most once.
SubmitAtMostOnce == lg.submits <= 1

\* What the code does: when expect_navigation raises, whether the first
\* click raised or went through without a navigation being seen in time, the
\* except branch clicks the control again; there is no third activation.
SubmitAtMostTwice ==
    /\ lg.submits <= 2
    /\ pc = "l_click2" => lg.submits <= 1
    /\ pc \in {"l_click", "l_resolve"} => lg.submits = 0

\* -------------------------------------------------------------- C34
\* C34 as stated: from the moment the listener holds a download, no step of
\* download_export fills the form, clicks the confirm control or the trigger,
\* or presses Enter.
NoInteractionAfterCapture ==
    [][(dl.listener = "captured" /\ ~interrupted') =>
          /\ dl'.acted \subseteq dl.acted
          /\ dl'.formTouched => dl.formTouched
          /\ dl'.enter_presses <= dl.enter_presses]_vars

\* What the code does: the fill, the confirm click and the Enter key come
\* after the expect_download block, which is left only with a download
\* captured; so each of them acts on the page after the capture, and only
\* then.
InteractionOnlyAfterCapture ==
    ("confirm" \in dl.acted \/ dl.formTouched \/ dl.enter_presses > 0
        \/ dl.fill_scope # "none") => dl.listener = "captured"

\* -------------------------------------------------------------- C35
\* C35 as stated: when the run has ended in failure, an export file that was
\* at the path of today's export before the run is still there.
FailedRunKeepsExports ==
    (pc = "exit" /\ exitCode # 0) => ~(dl.fileBefore /\ dl.fileToday = "absent")

\* What the code does: the data directory is touched by the save step alone,
\* and cleanup_old_exports is reached only with a saved path; but the save
\* step unlinks the file of the same day before save_as, and a save_as that
\* fails leaves the run failed with that file gone.
ExportsTouchedOnlyBySave ==
    /\ dl.fileToday # "untouched" => dl.why \in {"saved", "save"}
    /\ (dl.res = "fail" /\ dl.why # "save") => dl.fileToday = "untouched"
    /\ pc \in {"m_cleanup", "m_close"} => (dl.res = "path" /\ dl.fileToday \in {"new", "absent"})

\* -------------------------------------------------------------- C36
\* C36: when the three click methods have all raised, download_export has
\* returned failure and nothing else was done: no modal was looked for or
\* found, no recovery step entered, no form filled, no confirm control
\* searched or clicked, no key pressed, the waiter waits no more and none of
\* the download timeout was waited.
ClickFailureReturnsAtOnce ==
    dl.why = "click" =>
        /\ dl.res = "fail" /\ pc \in {"m_after_dl", "exit"}
        /\ ~dl.triggered /\ ~dl.modal_found /\ dl.modal_element = "none"
        /\ dl.shown = {} /\ dl.recovery = <<>> /\ ~dl.navigated
        /\ dl.fill_scope = "none" /\ ~dl.formTouched
        /\ dl.confirm_scopes = {} /\ ~dl.confirm_button.found
        /\ dl.enter_presses = 0 /\ "confirm" \notin dl.acted
        /\ dl.listener # "pending" /\ dl.elapsed = 0
        /\ dl.fileToday = "untouched"
        /\ "after_click_screenshot.png" \notin diag

\* the run ended with exit code 1 on the failed clicks, the interpreter not
\* interrupted
ClickFailureEndsRun ==
    /\ pc = "exit" /\ exitCode = 1 /\ ~interrupted
    /\ dl.why = "click" /\ dl.listener = "cancelled" /\ browser = "closed"

\* -------------------------------------------------------------- C37
\* C37: cleanup_old_exports runs only on a directory the run has saved its
\* file into, and it neither deletes that file nor tries to, whatever files
\* were there before and whatever their modification times; the file is
\* there when main returns.
CleanupKeepsSavedFile ==
    /\ cl.stage \in {"call", "loop", "returned", "parsed"} => cl.saved \in 1..Len(data_dir)
    /\ cl.saved # 0 =>
          /\ cl.saved \notin cl.attempted
          /\ cl.saved \notin cl.deleted

\* cleanup returned having deleted an older file, and the saved file, which
\* is not the first of the sorted list, is still there
SavedFileSurvivesPruning ==
    /\ cl.stage = "returned" /\ cl.saved # 0
    /\ cl.deleted # {}
    /\ cl.export_files # <<>> /\ cl.export_files[1] # cl.saved
    /\ cl.saved \notin cl.deleted

\* -------------------------------------------------------------- C38
\* C38: cleanup_old_exports tries to delete only files whose names match the
\* export pattern, in the first call and in a second one, and a second call
\* with the same keep_days and the same clock tries to delete nothing when
\* every deletion of the first call succeeded.
CleanupIdempotentOnExports ==
    /\ \A f \in cl.attempted \cup cl.again : FileName(f).stem = "export_"
    /\ \A k \in 1..Len(cl.export_files) : FileName(cl.export_files[k]).stem = "export_"
    /\ (cl.stage = "again" /\ cl.failed = {}) => cl.again = {}

\* the first call deleted an old export, a screenshot older still was in the
\* directory, and the second call found nothing to delete
SecondCleanupDeletesNothing ==
    /\ cl.stage = "again" /\ cl.failed = {} /\ cl.deleted # {}
    /\ cl.others = <<0>> /\ 0 < CutoffDate(now, keep_days)
    /\ cl.again = {}

\* -------------------------------------------------------------- C39
\* the newest export file of data/: no other carries a later time, and none
\* before it in the listing carries the same
NewestExport(f) ==
    /\ f \in 1..Len(ph.dir)
    /\ \A g \in 1..Len(ph.dir) : ph.dir[g] <= ph.dir[f]
    /\ \A g \in 1..(f - 1) : ph.dir[g] < ph.dir[f]

Selecting == ph.pc \in {"p_exists", "p_parse", "p_extract"}

\* C39 as stated: run with --download, whatever the subprocess did, the
\* parser comes to choose its file, the file is the newest export of data/,
\* and it exits non-zero only when data/ holds no export or the file chosen
\* does not parse.
DownloadNeverAbortsParsing ==
    ph.download =>
        /\ (Selecting /\ ph.dir # <<>>) =>
              (ph.excel_file.src = "glob" /\ NewestExport(ph.excel_file.idx))
        /\ (ph.pc = "exit" /\ ph.exit # 0) =>
              \/ ph.why = "missing" /\ ph.dir = <<>>
              \/ ph.why = "unparsed"

\* What the code does: the same, when --file is not given; with --file the
\* path given is the file, and the parser exits 1 when it is missing though
\* data/ holds exports.
DownloadNeverAbortsParsingWithoutFile ==
    (ph.download /\ ph.file = "none") =>
        /\ (Selecting /\ ph.dir # <<>>) =>
              (ph.excel_file.src = "glob" /\ NewestExport(ph.excel_file.idx))
        /\ (Selecting /\ ph.dir = <<>>) => ph.excel_file.src = "fallback"
        /\ (ph.pc = "exit" /\ ph.exit # 0) =>
              \/ ph.why = "missing" /\ ph.dir = <<>>
              \/ ph.why = "unparsed" /\ ph.excel_file.src = "glob"
        /\ ph.pc \notin {"p_args", "idle"} =>
              ph.subprocess \in {"exit0", "nonzero", "cannot_start"}

\* the subprocess exited 0, the branch for that raised and was caught, and
\* the parser went on to parse the newest export, which is not the only one
ParsedAfterCaughtError ==
    /\ ph.download /\ ph.file = "none" /\ ph.subprocess = "exit0" /\ ph.caught
    /\ ph.pc = "p_extract" /\ Len(ph.dir) > 1
    /\ ph.excel_file.src = "glob" /\ ph.excel_file.idx = 2
====
